---- MODULE Spec2Model ----
(***************************************************************************)
(* A model of rhywbeth (src/src/main.rs): a terminal ray caster.           *)
(*                                                                         *)
(* Every number of the program is an f32 and is modelled as one: IEEE-754   *)
(* binary32 with round-to-nearest-even, subnormals, infinities, NaN and    *)
(* signed zero, implemented on integers.  tan, cos and sin are the values  *)
(* of the platform's libm, tabulated for the angles that are used.         *)
(* powf(2.0) is x * x in an optimised build and a call of libm's powf      *)
(* otherwise, which may return the other neighbour of a square that lies   *)
(* next to a rounding tie: it is a set of outcomes.                        *)
(***************************************************************************)
EXTENDS Integers, Sequences, FiniteSets, TLC

VARIABLES
    \* ---- the event loop of main ----
    position,              \* (x, y) of the viewer, a pair of f32
    rotation,              \* the heading, f32
    last_mouse_position,   \* None or the column of the last Moved event
    segments,              \* the wall list built at startup
    running,               \* FALSE once 'q' broke out of the loop
    lastEvent,             \* history: the event handled last
    frames,                \* history: render calls made by the last handler
    frame,                 \* history: pose the last frame's rays were cast from
    call,                  \* history: the last render call's entry and exit state
    events,                \* number of events read so far
    \* ---- one column of render / pure-function harness ----
    mode,                  \* which harness owns the variables below
    pc,                    \* position of the harness
    input,                 \* the inputs drawn by Init
    acc,                   \* the loop's locals (distance, colour, next index, distances seen)
    output                 \* what the operation produced

vars == << position, rotation, last_mouse_position, segments, running,
           lastEvent, frames, frame, call, events,
           mode, pc, input, acc, output >>

loopVars == << position, rotation, last_mouse_position, segments, running,
               lastEvent, frames, frame, call, events >>

harnessVars == << mode, pc, input, acc, output >>

None == << >>

(***************************************************************************)
(* f32 (IEEE-754 binary32), bit for bit.  A value is a record              *)
(*   [k, s, m, e]:  k = "fin": s * m * 2^e, with 2^23 <= m < 2^24 (or      *)
(*                  m < 2^23 and e = EMin: subnormal; m = 0, e = 0: zero), *)
(*                  k = "inf": s * infinity,  k = "nan": NaN.              *)
(* Every operation rounds to nearest, ties to even.  Intermediate integers *)
(* stay below 2^31.                                                        *)
(***************************************************************************)
Abs(i) == IF i < 0 THEN -i ELSE i

Max(a, b) == IF a > b THEN a ELSE b

Min(a, b) == IF a < b THEN a ELSE b

MantissaBits == 24         \* f32: 24 significant bits

EMin == -149               \* exponent of the least mantissa bit of a subnormal

EMax == 104                \* exponent of the least mantissa bit of f32::MAX

\* the number of bits of 0 <= n < 2^31
RECURSIVE BitLen(_)
BitLen(n) == IF n = 0 THEN 0 ELSE 1 + BitLen(n \div 2)

Fin(s, m, e) == [ k |-> "fin", s |-> s, m |-> m, e |-> e ]

Zero(s) == Fin(s, 0, 0)

Inf(s) == [ k |-> "inf", s |-> s, m |-> 0, e |-> 0 ]

NaN == [ k |-> "nan", s |-> 1, m |-> 0, e |-> 0 ]

is_nan(a) == a.k = "nan"

is_infinite(a) == a.k = "inf"

is_zero(a) == a.k = "fin" /\ a.m = 0

\* s * M * 2^E (plus, when sticky, a nonzero part below M's last bit), rounded
\* to the nearest f32, ties to even; 0 <= M < 2^31
Pack(s, M, E, sticky) ==
    IF M = 0 THEN Zero(s)
    ELSE LET nb    == BitLen(M)
             shift == Max(nb - MantissaBits, EMin - E)
         IN IF shift <= 0
            THEN LET up == Min(MantissaBits - nb, E - EMin)
                 IN IF E - up > EMax THEN Inf(s) ELSE Fin(s, M * 2 ^ up, E - up)
            ELSE IF shift > 31 THEN Zero(s)
            ELSE LET q    == IF shift > 30 THEN 0 ELSE M \div 2 ^ shift
                     r    == IF shift > 30 THEN M ELSE M % 2 ^ shift
                     half == 2 ^ (shift - 1)
                     m1   == IF r > half \/ (r = half /\ (sticky \/ q % 2 = 1))
                             THEN q + 1 ELSE q
                     m2   == IF m1 = 2 ^ MantissaBits THEN m1 \div 2 ELSE m1
                     e2   == IF m1 = 2 ^ MantissaBits THEN E + shift + 1 ELSE E + shift
                 IN IF m2 = 0 THEN Zero(s)
                    ELSE IF e2 > EMax THEN Inf(s)
                    ELSE Fin(s, m2, e2)

\* the mantissa and exponent of a finite nonzero a with the mantissa brought to
\* 24 bits (a subnormal's exponent goes below EMin)
Norm(a) ==
    LET up == MantissaBits - BitLen(a.m)
    IN [ m |-> a.m * 2 ^ up, e |-> a.e - up ]

\* the next f32 away from zero, and the next one towards zero, of a finite a
Up(a) ==
    IF a.m = 0 THEN Fin(a.s, 1, EMin)
    ELSE IF a.m + 1 < 2 ^ MantissaBits THEN Fin(a.s, a.m + 1, a.e)
    ELSE IF a.e + 1 > EMax THEN Inf(a.s)
    ELSE Fin(a.s, 2 ^ (MantissaBits - 1), a.e + 1)

Down(a) ==
    IF a.m = 0 THEN a
    ELSE IF a.m = 1 THEN Zero(a.s)
    ELSE IF a.m = 2 ^ (MantissaBits - 1) /\ a.e > EMin
         THEN Fin(a.s, 2 ^ MantissaBits - 1, a.e - 1)
    ELSE Fin(a.s, a.m - 1, a.e)

\* an integer |n| < 2^24 as f32 (exact)
I(n) == Pack(IF n < 0 THEN -1 ELSE 1, Abs(n), 0, FALSE)

Div(a, b) ==
    IF is_nan(a) \/ is_nan(b) THEN NaN
    ELSE IF is_infinite(a) THEN (IF is_infinite(b) THEN NaN ELSE Inf(a.s * b.s))
    ELSE IF is_infinite(b) THEN Zero(a.s * b.s)
    ELSE IF is_zero(b) THEN (IF is_zero(a) THEN NaN ELSE Inf(a.s * b.s))
    ELSE IF is_zero(a) THEN Zero(a.s * b.s)
    ELSE LET na == Norm(a)
             nb == Norm(b)
             RECURSIVE Long(_, _, _)
             \* k more quotient bits of rem / nb.m, up to seven at a time
             Long(q, rem, k) ==
                 IF k = 0 THEN << q, rem >>
                 ELSE LET p == 2 ^ Min(k, 7)
                      IN Long(q * p + (rem * p) \div nb.m, (rem * p) % nb.m,
                              k - Min(k, 7))
             qr == Long(na.m \div nb.m, na.m % nb.m, 27)
         IN Pack(a.s * b.s, qr[1], na.e - nb.e - 27, qr[2] # 0)

\* the literal n/d: the f32 nearest to it (0.1 is Lit(1, 10))
Lit(n, d) == Div(I(n), I(d))

Neg(a) == IF is_nan(a) THEN a ELSE [ a EXCEPT !.s = -a.s ]

Add(a, b) ==
    IF is_nan(a) \/ is_nan(b) THEN NaN
    ELSE IF is_infinite(a)
         THEN (IF is_infinite(b) /\ a.s # b.s THEN NaN ELSE a)
    ELSE IF is_infinite(b) THEN b
    ELSE IF is_zero(a) /\ is_zero(b) THEN Zero(IF a.s = b.s THEN a.s ELSE 1)
    ELSE IF is_zero(a) THEN b
    ELSE IF is_zero(b) THEN a
    ELSE LET aBig == a.e > b.e \/ (a.e = b.e /\ a.m >= b.m)
             x == IF aBig THEN a ELSE b
             y == IF aBig THEN b ELSE a
             d == x.e - y.e
             \* three guard bits; y shifted right with its lost bits kept as a sticky last bit
             X == x.m * 8
             t == y.m * 8
             Y == IF d > 27 THEN 1
                  ELSE LET yq == t \div 2 ^ d
                       IN IF t % 2 ^ d # 0 THEN yq + 1 - (yq % 2) ELSE yq
             R == IF x.s = y.s THEN X + Y ELSE X - Y
         IN IF R = 0 THEN Zero(1) ELSE Pack(x.s, R, x.e - 3, FALSE)

Sub(a, b) == Add(a, Neg(b))

\* the exact product of the mantissas of finite nonzero a and b (each brought
\* to 24 bits) as two 24-bit halves, and the exponent of its last bit
Product(a, b) ==
    LET na == Norm(a)
        nb == Norm(b)
        \* 12-bit limbs
        h1 == na.m \div 4096
        l1 == na.m % 4096
        h2 == nb.m \div 4096
        l2 == nb.m % 4096
        mid   == h1 * l2 + l1 * h2
        low24 == l1 * l2 + (mid % 4096) * 4096
    IN [ high |-> h1 * h2 + mid \div 4096 + low24 \div 16777216,
         low  |-> low24 % 16777216,
         e    |-> na.e + nb.e ]

Mul(a, b) ==
    IF is_nan(a) \/ is_nan(b) THEN NaN
    ELSE IF is_infinite(a) \/ is_infinite(b)
         THEN (IF is_zero(a) \/ is_zero(b) THEN NaN ELSE Inf(a.s * b.s))
    ELSE IF is_zero(a) \/ is_zero(b) THEN Zero(a.s * b.s)
    ELSE LET p == Product(a, b)
         IN Pack(a.s * b.s, p.high * 16 + p.low \div 1048576, p.e + 20,
                 p.low % 1048576 # 0)

\* bits [from, from + 10) of the 48-bit number high * 2^24 + low, from >= 0
ProductBits(high, low, from) ==
    IF from >= 54 THEN 0
    ELSE IF from >= 24 THEN (high \div 2 ^ (from - 24)) % 1024
    ELSE IF from >= 14 THEN (high % 2 ^ (from - 14)) * 2 ^ (24 - from) + low \div 2 ^ from
    ELSE (low \div 2 ^ from) % 1024

\* f32::powf(x, 2.0).  An optimized build folds it to x * x; an unoptimized
\* build calls the platform's powf, which is accurate to within 0.52 ulp but
\* not correctly rounded.  The outcomes: x * x, and, when the exact square is
\* within 1/32 ulp of the middle of two f32 values, the other of the two.
powf2(x) ==
    IF is_nan(x) THEN { NaN }
    ELSE IF is_infinite(x) THEN { Inf(1) }
    ELSE IF is_zero(x) THEN { Zero(1) }
    ELSE LET p     == Product(x, x)
             nb    == IF p.high >= 2 ^ (MantissaBits - 1) THEN 48 ELSE 47
             shift == Max(nb - MantissaBits, EMin - p.e)
             rn    == Mul(x, x)
             \* the ten bits below the last kept bit, and whether more follow
             top   == IF shift >= 10 THEN ProductBits(p.high, p.low, shift - 10) ELSE 0
             rest  == IF shift - 10 >= 54 THEN TRUE
                      ELSE IF shift - 10 >= 24
                           THEN p.low # 0 \/ p.high % 2 ^ (shift - 34) # 0
                           ELSE p.low % 2 ^ (shift - 10) # 0
             odd   == IF shift >= 54 THEN FALSE
                      ELSE IF shift >= 24 THEN (p.high \div 2 ^ (shift - 24)) % 2 = 1
                      ELSE (p.low \div 2 ^ shift) % 2 = 1
             roundedUp == top > 512 \/ (top = 512 /\ (rest \/ odd))
             nearTie   == (top >= 480 /\ top < 544) \/ (top = 544 /\ ~rest)
         IN IF rn.k = "fin" /\ nearTie
            THEN { rn, IF roundedUp THEN Down(rn) ELSE Up(rn) }
            ELSE { rn }

\* IEEE comparisons: every comparison with NaN is false, -0 equals +0
Lt(a, b) ==
    /\ ~is_nan(a)
    /\ ~is_nan(b)
    /\ LET \* the order of finite values and infinities as an order on triples
           Key(x) == IF is_infinite(x) THEN << x.s, 1000, 0 >>
                     ELSE IF x.m = 0 THEN << 0, 0, 0 >>
                     ELSE << x.s, x.e, x.m >>
           ka == Key(a)
           kb == Key(b)
       IN \/ ka[1] < kb[1]
          \/ /\ ka[1] = kb[1]
             /\ ka[1] = 1
             /\ (ka[2] < kb[2] \/ (ka[2] = kb[2] /\ ka[3] < kb[3]))
          \/ /\ ka[1] = kb[1]
             /\ ka[1] = -1
             /\ (ka[2] > kb[2] \/ (ka[2] = kb[2] /\ ka[3] > kb[3]))

Eq(a, b) ==
    /\ ~is_nan(a)
    /\ ~is_nan(b)
    /\ (a = b \/ (is_zero(a) /\ is_zero(b)))

Le(a, b) == Lt(a, b) \/ Eq(a, b)

\* f32::round: to the nearest integer, halves away from zero
Round(a) ==
    IF a.k # "fin" \/ a.e >= 0 THEN a
    ELSE IF -a.e > MantissaBits THEN Zero(a.s)
    ELSE LET whole == a.m \div 2 ^ (-a.e)
             part  == a.m % 2 ^ (-a.e)
         IN Pack(a.s, IF 2 * part >= 2 ^ (-a.e) THEN whole + 1 ELSE whole, 0, FALSE)

U16Max == 65535

\* the integer part of a finite a >= 0, capped at cap
Trunc(a, cap) ==
    IF a.e > 0 THEN (IF a.m = 0 THEN 0 ELSE cap)
    ELSE IF -a.e > MantissaBits THEN 0
    ELSE Min(a.m \div 2 ^ (-a.e), cap)

\* a cast that wraps modulo 2^16 instead of saturating
as_u16_wrapping(a) ==
    IF a.k # "fin" THEN 0
    ELSE (a.s * Trunc(a, 2 ^ 30)) % (U16Max + 1)
\* `as u16` on a float: saturating, NaN to 0
as_u16(a) ==
    IF is_nan(a) THEN 0
    ELSE IF a.s < 0 THEN 0
    ELSE IF is_infinite(a) THEN U16Max
    ELSE Trunc(a, U16Max)

(***************************************************************************)
(* Option<T>: None is the empty sequence, Some(v) a one-element sequence.  *)
(***************************************************************************)
Some(v) == << v >>

is_none(o) == o = << >>

is_some(o) == o # << >>

unwrap(o) == o[1]

\* f32::sqrt (correctly rounded)
sqrt(a) ==
    IF is_nan(a) THEN NaN
    ELSE IF is_zero(a) THEN a
    ELSE IF a.s < 0 THEN NaN
    ELSE IF is_infinite(a) THEN a
    ELSE LET na  == Norm(a)
             odd == na.e % 2 = 1
             mm  == IF odd THEN 2 * na.m ELSE na.m    \* below 2^26: 13 bit pairs
             ee  == IF odd THEN na.e - 1 ELSE na.e
             RECURSIVE Root(_, _, _)
             \* digit by digit: pair i of 27 (the last 14 pairs are zero)
             Root(root, rem, i) ==
                 IF i > 27 THEN << root, rem >>
                 ELSE LET pair  == IF i <= 13 THEN (mm \div 4 ^ (13 - i)) % 4 ELSE 0
                          r4    == rem * 4 + pair
                          trial == root * 4 + 1
                      IN IF r4 >= trial
                         THEN Root(2 * root + 1, r4 - trial, i + 1)
                         ELSE Root(2 * root, r4, i + 1)
             rr == Root(0, 0, 1)
         IN Pack(1, rr[1], ee \div 2 - 14, rr[2] # 0)

(***************************************************************************)
(* LineSegment                                                             *)
(***************************************************************************)
\* f32::tan, cos, sin: an angle is a row [angle, tan, cos, sin] of the table Angles
Cos(angle) == angle.cos

Sin(angle) == angle.sin

Tan(angle) == angle.tan

RayLength == 15

from_points(start, end, colour) ==
    LET slope == Div(Sub(end[2], start[2]), Sub(end[1], start[1]))
    IN [ slope     |-> slope,
         intercept |-> Add(Mul(Neg(slope), start[1]), start[2]),
         start     |-> start,
         end       |-> end,
         colour    |-> colour ]

ray(start, angle) ==
    LET slope == Tan(angle)
        end   == << Add(start[1], Mul(I(RayLength), Cos(angle))),
                    Add(start[2], Mul(I(RayLength), Sin(angle))) >>
    IN [ slope     |-> slope,
         intercept |-> Add(Mul(Neg(slope), start[1]), start[2]),
         start     |-> start,
         end       |-> end,
         colour    |-> "White" ]

find_y(self, x) == Add(Mul(self.slope, x), self.intercept)

between(x, a, b) ==
    IF Lt(a, b) THEN Le(a, x) /\ Le(x, b)
    ELSE Le(b, x) /\ Le(x, a)

RECURSIVE intersects(_, _)
intersects(self, other) ==
    IF is_infinite(other.slope)
    THEN IF is_infinite(self.slope)
         THEN (IF Eq(self.start[1], other.start[1])
               THEN Some(<< self.start[1], I(0) >>)     \* same line
               ELSE << >>)
         ELSE IF /\ between(other.start[1], self.start[1], self.end[1])
                 /\ between(find_y(self, other.start[1]), other.start[2], other.end[2])
              THEN Some(<< other.start[1], find_y(self, other.start[1]) >>)
              ELSE << >>
    ELSE IF is_infinite(self.slope)
    THEN intersects(other, self)
    ELSE LET intersection == Div(Sub(other.intercept, self.intercept),
                                 Sub(self.slope, other.slope))
         IN IF /\ between(intersection, self.start[1], self.end[1])
               /\ between(intersection, other.start[1], other.end[1])
            THEN Some(<< intersection, find_y(self, intersection) >>)
            ELSE << >>

\* the values get_distance may return: one for each outcome of the two powf calls
get_distance(point_a, point_b) ==
    LET dy == Sub(point_b[2], point_a[2])
        dx == Sub(point_b[1], point_a[1])
    IN { sqrt(Add(sy, sx)) : sy \in powf2(dy), sx \in powf2(dx) }

\* an integer point of the world plane
Pt(x, y) == << I(x), I(y) >>

\* the wall list main builds at startup
Walls ==
    << from_points(Pt(6, 1), Pt(4, 3), "Black"),
       from_points(Pt(4, 3), Pt(7, 5), "Magenta"),
       from_points(Pt(7, 5), Pt(6, 1), "Green"),
       from_points(Pt(2, 1), Pt(-2, 1), "White"),
       from_points(Pt(-2, 1), Pt(-2, 5), "Magenta"),
       from_points(Pt(-2, 5), Pt(2, 5), "Green"),
       from_points(Pt(2, 5), Pt(2, 1), "Yellow") >>

(***************************************************************************)
(* render, lines 144-151: the height and the padding of a column with a    *)
(* hit at `distance`, for a viewport of H rows.                            *)
(***************************************************************************)
\* a height whose cast wraps where the formula is negative
column_height_no_far_limit(H, distance) ==
    IF Lt(I(5), distance)
    THEN as_u16_wrapping(Round(Mul(I(H),
             Sub(I(1), Mul(Sub(distance, I(5)), Lit(1, 10))))))
    ELSE H
\* a height that falls off twice as fast
column_height_wrong_falloff(H, distance) ==
    IF Lt(I(5), distance)
    THEN as_u16(Round(Mul(I(H), Sub(I(1), Mul(Sub(distance, I(5)), Lit(1, 5))))))
    ELSE H
\* lines 145-149
column_height(H, distance) ==
    IF Lt(I(5), distance)
    THEN as_u16(Round(Mul(I(H), Sub(I(1), Mul(Sub(distance, I(5)), Lit(1, 10))))))
    ELSE H

\* u16 subtraction: a negative difference panics (debug) or wraps (release)
column_padding(H, height) == (H - height) \div 2

(***************************************************************************)
(* The heading and the viewer position are f32, updated bit for bit as the *)
(* code does.                                                              *)
(***************************************************************************)
PI == Fin(1, 13176795, -22)         \* std::f32::consts::PI, 0x40490FDB

TwoPI == Mul(I(2), PI)              \* 2.0 * PI

QuarterTurn == Div(PI, I(4))        \* PI / 4.0

RotateStep == Lit(1, 20)            \* 0.05, the 'h' / 'l' step

MouseStep == Lit(1, 100)            \* 0.01 per column of pointer movement

SPEED == Lit(1, 4)                  \* 0.25

\* f32::cos and f32::sin (libm's cosf and sinf) of rotation - PI / 4.0 and
\* rotation + PI / 4.0, for every heading the loop reaches from the initial one
\* within six events with pointer columns 0, 100 and 800
MoveAngles ==
    { [ angle |-> Fin(-1, 12473414, -20), cos |-> Fin(1, 13142048, -24), sin |-> Fin(1, 10428881, -24) ],
      [ angle |-> Fin(-1, 11634554, -20), cos |-> Fin(1, 13399554, -27), sin |-> Fin(1, 16693398, -24) ],
      [ angle |-> Fin(-1, 11582125, -20), cos |-> Fin(1, 13416410, -28), sin |-> Fin(1, 16756248, -24) ],
      [ angle |-> Fin(-1, 11582124, -20), cos |-> Fin(1, 13416154, -28), sin |-> Fin(1, 16756249, -24) ],
      [ angle |-> Fin(-1, 11529696, -20), cos |-> Fin(1, 11674308, -44), sin |-> Fin(1, 8388608, -23) ],
      [ angle |-> Fin(-1, 11477268, -20), cos |-> Fin(-1, 13415799, -28), sin |-> Fin(1, 16756250, -24) ],
      [ angle |-> Fin(-1, 11477267, -20), cos |-> Fin(-1, 13416054, -28), sin |-> Fin(1, 16756249, -24) ],
      [ angle |-> Fin(-1, 11424838, -20), cos |-> Fin(-1, 13399377, -27), sin |-> Fin(1, 16693400, -24) ],
      [ angle |-> Fin(-1, 10826314, -20), cos |-> Fin(-1, 10428889, -24), sin |-> Fin(1, 13142041, -24) ],
      [ angle |-> Fin(-1, 10585978, -20), cos |-> Fin(-1, 13142034, -24), sin |-> Fin(1, 10428898, -24) ],
      [ angle |-> Fin(-1, 10533549, -20), cos |-> Fin(-1, 13646839, -24), sin |-> Fin(1, 9759034, -24) ],
      [ angle |-> Fin(-1, 10533548, -20), cos |-> Fin(-1, 13646849, -24), sin |-> Fin(1, 9759021, -24) ],
      [ angle |-> Fin(-1, 10481120, -20), cos |-> Fin(-1, 14117534, -24), sin |-> Fin(1, 9064778, -24) ],
      [ angle |-> Fin(-1, 10428692, -20), cos |-> Fin(-1, 14552935, -24), sin |-> Fin(1, 16695755, -25) ],
      [ angle |-> Fin(-1, 10428691, -20), cos |-> Fin(-1, 14552943, -24), sin |-> Fin(1, 16695728, -25) ],
      [ angle |-> Fin(-1, 10376262, -20), cos |-> Fin(-1, 14951976, -24), sin |-> Fin(1, 15220169, -25) ],
      [ angle |-> Fin(-1, 9987454, -20), cos |-> Fin(-1, 16693399, -24), sin |-> Fin(1, 13399469, -27) ],
      [ angle |-> Fin(-1, 9935025, -20), cos |-> Fin(-1, 16756249, -24), sin |-> Fin(1, 13416239, -28) ],
      [ angle |-> Fin(-1, 9935024, -20), cos |-> Fin(-1, 16756249, -24), sin |-> Fin(1, 13415983, -28) ],
      [ angle |-> Fin(-1, 9882596, -20), cos |-> Fin(-1, 8388608, -23), sin |-> Fin(1, 13426222, -49) ],
      [ angle |-> Fin(-1, 9830168, -20), cos |-> Fin(-1, 16756250, -24), sin |-> Fin(-1, 13415970, -28) ],
      [ angle |-> Fin(-1, 9830167, -20), cos |-> Fin(-1, 16756249, -24), sin |-> Fin(-1, 13416226, -28) ],
      [ angle |-> Fin(-1, 9777738, -20), cos |-> Fin(-1, 16693399, -24), sin |-> Fin(-1, 13399462, -27) ],
      [ angle |-> Fin(-1, 8938878, -20), cos |-> Fin(-1, 10428890, -24), sin |-> Fin(-1, 13142041, -24) ],
      [ angle |-> Fin(-1, 8886449, -20), cos |-> Fin(-1, 9759026, -24), sin |-> Fin(-1, 13646846, -24) ],
      [ angle |-> Fin(-1, 8886448, -20), cos |-> Fin(-1, 9759013, -24), sin |-> Fin(-1, 13646855, -24) ],
      [ angle |-> Fin(-1, 8834020, -20), cos |-> Fin(-1, 9064769, -24), sin |-> Fin(-1, 14117540, -24) ],
      [ angle |-> Fin(-1, 8781592, -20), cos |-> Fin(-1, 16695737, -25), sin |-> Fin(-1, 14552940, -24) ],
      [ angle |-> Fin(-1, 8781591, -20), cos |-> Fin(-1, 16695709, -25), sin |-> Fin(-1, 14552948, -24) ],
      [ angle |-> Fin(-1, 8729162, -20), cos |-> Fin(-1, 15220149, -25), sin |-> Fin(-1, 14951981, -24) ],
      [ angle |-> Fin(-1, 13797589, -21), cos |-> Fin(1, 16047503, -24), sin |-> Fin(-1, 9788283, -25) ],
      [ angle |-> Fin(-1, 13692732, -21), cos |-> Fin(1, 16272052, -24), sin |-> Fin(-1, 16343955, -26) ],
      [ angle |-> Fin(-1, 13587876, -21), cos |-> Fin(1, 16455928, -24), sin |-> Fin(-1, 13070525, -26) ],
      [ angle |-> Fin(-1, 13587875, -21), cos |-> Fin(1, 16455929, -24), sin |-> Fin(-1, 13070493, -26) ],
      [ angle |-> Fin(-1, 13587874, -21), cos |-> Fin(1, 16455931, -24), sin |-> Fin(-1, 13070462, -26) ],
      [ angle |-> Fin(-1, 13483018, -21), cos |-> Fin(1, 16598676, -24), sin |-> Fin(-1, 9764363, -26) ],
      [ angle |-> Fin(-1, 13483017, -21), cos |-> Fin(1, 16598677, -24), sin |-> Fin(-1, 9764331, -26) ],
      [ angle |-> Fin(-1, 13378160, -21), cos |-> Fin(1, 16699936, -24), sin |-> Fin(-1, 12867590, -27) ],
      [ angle |-> Fin(-1, 13378159, -21), cos |-> Fin(1, 16699937, -24), sin |-> Fin(-1, 12867526, -27) ],
      [ angle |-> Fin(-1, 13378158, -21), cos |-> Fin(1, 16699938, -24), sin |-> Fin(-1, 12867463, -27) ],
      [ angle |-> Fin(-1, 13273302, -21), cos |-> Fin(1, 16759455, -24), sin |-> Fin(-1, 12348583, -28) ],
      [ angle |-> Fin(-1, 13168445, -21), cos |-> Fin(1, 16777083, -24), sin |-> Fin(1, 8550002, -31) ],
      [ angle |-> Fin(-1, 12189464, -21), cos |-> Fin(1, 14951981, -24), sin |-> Fin(1, 15220148, -25) ],
      [ angle |-> Fin(-1, 12189463, -21), cos |-> Fin(1, 14951978, -24), sin |-> Fin(1, 15220163, -25) ],
      [ angle |-> Fin(-1, 12189462, -21), cos |-> Fin(1, 14951974, -24), sin |-> Fin(1, 15220177, -25) ],
      [ angle |-> Fin(-1, 12084606, -21), cos |-> Fin(1, 14552949, -24), sin |-> Fin(1, 16695708, -25) ],
      [ angle |-> Fin(-1, 12084605, -21), cos |-> Fin(1, 14552945, -24), sin |-> Fin(1, 16695722, -25) ],
      [ angle |-> Fin(-1, 11979749, -21), cos |-> Fin(1, 14117545, -24), sin |-> Fin(1, 9064762, -24) ],
      [ angle |-> Fin(-1, 11979748, -21), cos |-> Fin(1, 14117541, -24), sin |-> Fin(1, 9064768, -24) ],
      [ angle |-> Fin(-1, 11979747, -21), cos |-> Fin(1, 14117536, -24), sin |-> Fin(1, 9064775, -24) ],
      [ angle |-> Fin(-1, 11874891, -21), cos |-> Fin(1, 13646851, -24), sin |-> Fin(1, 9759019, -24) ],
      [ angle |-> Fin(-1, 11874890, -21), cos |-> Fin(1, 13646846, -24), sin |-> Fin(1, 9759025, -24) ],
      [ angle |-> Fin(-1, 11770034, -21), cos |-> Fin(1, 13142051, -24), sin |-> Fin(1, 10428877, -24) ],
      [ angle |-> Fin(-1, 11700437, -21), cos |-> Fin(1, 12788781, -24), sin |-> Fin(1, 10859193, -24) ],
      [ angle |-> Fin(-1, 11595580, -21), cos |-> Fin(1, 12230068, -24), sin |-> Fin(1, 11484790, -24) ],
      [ angle |-> Fin(-1, 11490724, -21), cos |-> Fin(1, 11640793, -24), sin |-> Fin(1, 12081677, -24) ],
      [ angle |-> Fin(-1, 11490723, -21), cos |-> Fin(1, 11640787, -24), sin |-> Fin(1, 12081683, -24) ],
      [ angle |-> Fin(-1, 11490722, -21), cos |-> Fin(1, 11640781, -24), sin |-> Fin(1, 12081688, -24) ],
      [ angle |-> Fin(-1, 11385866, -21), cos |-> Fin(1, 11022410, -24), sin |-> Fin(1, 12648378, -24) ],
      [ angle |-> Fin(-1, 11385865, -21), cos |-> Fin(1, 11022404, -24), sin |-> Fin(1, 12648383, -24) ],
      [ angle |-> Fin(-1, 11281008, -21), cos |-> Fin(1, 10376477, -24), sin |-> Fin(1, 13183463, -24) ],
      [ angle |-> Fin(-1, 11281007, -21), cos |-> Fin(1, 10376471, -24), sin |-> Fin(1, 13183468, -24) ],
      [ angle |-> Fin(-1, 11281006, -21), cos |-> Fin(1, 10376464, -24), sin |-> Fin(1, 13183473, -24) ],
      [ angle |-> Fin(-1, 11176150, -21), cos |-> Fin(1, 9704608, -24), sin |-> Fin(1, 13685597, -24) ],
      [ angle |-> Fin(-1, 11071293, -21), cos |-> Fin(1, 9008489, -24), sin |-> Fin(1, 14153519, -24) ],
      [ angle |-> Fin(-1, 10503391, -21), cos |-> Fin(1, 9788293, -25), sin |-> Fin(1, 16047502, -24) ],
      [ angle |-> Fin(-1, 10398534, -21), cos |-> Fin(1, 16343975, -26), sin |-> Fin(1, 16272051, -24) ],
      [ angle |-> Fin(-1, 10293678, -21), cos |-> Fin(1, 13070545, -26), sin |-> Fin(1, 16455927, -24) ],
      [ angle |-> Fin(-1, 10293677, -21), cos |-> Fin(1, 13070514, -26), sin |-> Fin(1, 16455928, -24) ],
      [ angle |-> Fin(-1, 10293676, -21), cos |-> Fin(1, 13070483, -26), sin |-> Fin(1, 16455930, -24) ],
      [ angle |-> Fin(-1, 10188820, -21), cos |-> Fin(1, 9764384, -26), sin |-> Fin(1, 16598675, -24) ],
      [ angle |-> Fin(-1, 10188819, -21), cos |-> Fin(1, 9764352, -26), sin |-> Fin(1, 16598677, -24) ],
      [ angle |-> Fin(-1, 10092312, -21), cos |-> Fin(1, 13399467, -27), sin |-> Fin(1, 16693399, -24) ],
      [ angle |-> Fin(-1, 10092311, -21), cos |-> Fin(1, 13399403, -27), sin |-> Fin(1, 16693400, -24) ],
      [ angle |-> Fin(-1, 10092310, -21), cos |-> Fin(1, 13399340, -27), sin |-> Fin(1, 16693401, -24) ],
      [ angle |-> Fin(-1, 10083962, -21), cos |-> Fin(1, 12867632, -27), sin |-> Fin(1, 16699936, -24) ],
      [ angle |-> Fin(-1, 10083961, -21), cos |-> Fin(1, 12867568, -27), sin |-> Fin(1, 16699936, -24) ],
      [ angle |-> Fin(-1, 10083960, -21), cos |-> Fin(1, 12867504, -27), sin |-> Fin(1, 16699937, -24) ],
      [ angle |-> Fin(-1, 9987454, -21), cos |-> Fin(1, 13416235, -28), sin |-> Fin(1, 16756249, -24) ],
      [ angle |-> Fin(-1, 9979104, -21), cos |-> Fin(1, 12348668, -28), sin |-> Fin(1, 16759454, -24) ],
      [ angle |-> Fin(-1, 9882597, -21), cos |-> Fin(1, 8598393, -44), sin |-> Fin(1, 8388608, -23) ],
      [ angle |-> Fin(-1, 9882596, -21), cos |-> Fin(1, 13426222, -50), sin |-> Fin(1, 8388608, -23) ],
      [ angle |-> Fin(-1, 9874247, -21), cos |-> Fin(-1, 8549328, -31), sin |-> Fin(1, 16777083, -24) ],
      [ angle |-> Fin(-1, 9777739, -21), cos |-> Fin(-1, 13416101, -28), sin |-> Fin(1, 16756249, -24) ],
      [ angle |-> Fin(-1, 9777738, -21), cos |-> Fin(-1, 13416229, -28), sin |-> Fin(1, 16756249, -24) ],
      [ angle |-> Fin(-1, 9672882, -21), cos |-> Fin(-1, 13399336, -27), sin |-> Fin(1, 16693401, -24) ],
      [ angle |-> Fin(-1, 9672881, -21), cos |-> Fin(-1, 13399400, -27), sin |-> Fin(1, 16693400, -24) ],
      [ angle |-> Fin(-1, 9672880, -21), cos |-> Fin(-1, 13399464, -27), sin |-> Fin(1, 16693399, -24) ],
      [ angle |-> Fin(-1, 8895266, -21), cos |-> Fin(-1, 15220139, -25), sin |-> Fin(1, 14951984, -24) ],
      [ angle |-> Fin(-1, 8895265, -21), cos |-> Fin(-1, 15220153, -25), sin |-> Fin(1, 14951980, -24) ],
      [ angle |-> Fin(-1, 8895264, -21), cos |-> Fin(-1, 15220168, -25), sin |-> Fin(1, 14951977, -24) ],
      [ angle |-> Fin(-1, 8790408, -21), cos |-> Fin(-1, 16695699, -25), sin |-> Fin(1, 14552951, -24) ],
      [ angle |-> Fin(-1, 8790407, -21), cos |-> Fin(-1, 16695713, -25), sin |-> Fin(1, 14552947, -24) ],
      [ angle |-> Fin(-1, 8685551, -21), cos |-> Fin(-1, 9064757, -24), sin |-> Fin(1, 14117548, -24) ],
      [ angle |-> Fin(-1, 8685550, -21), cos |-> Fin(-1, 9064764, -24), sin |-> Fin(1, 14117543, -24) ],
      [ angle |-> Fin(-1, 8685549, -21), cos |-> Fin(-1, 9064771, -24), sin |-> Fin(1, 14117539, -24) ],
      [ angle |-> Fin(-1, 8580693, -21), cos |-> Fin(-1, 9759014, -24), sin |-> Fin(1, 13646854, -24) ],
      [ angle |-> Fin(-1, 8580692, -21), cos |-> Fin(-1, 9759021, -24), sin |-> Fin(1, 13646849, -24) ],
      [ angle |-> Fin(-1, 8475836, -21), cos |-> Fin(-1, 10428873, -24), sin |-> Fin(1, 13142054, -24) ],
      [ angle |-> Fin(-1, 8406239, -21), cos |-> Fin(-1, 10859188, -24), sin |-> Fin(1, 12788784, -24) ],
      [ angle |-> Fin(-1, 16602763, -22), cos |-> Fin(-1, 11484790, -24), sin |-> Fin(1, 12230069, -24) ],
      [ angle |-> Fin(-1, 16393051, -22), cos |-> Fin(-1, 12081676, -24), sin |-> Fin(1, 11640794, -24) ],
      [ angle |-> Fin(-1, 16393049, -22), cos |-> Fin(-1, 12081682, -24), sin |-> Fin(1, 11640788, -24) ],
      [ angle |-> Fin(-1, 16393047, -22), cos |-> Fin(-1, 12081687, -24), sin |-> Fin(1, 11640782, -24) ],
      [ angle |-> Fin(-1, 16339225, -22), cos |-> Fin(-1, 12230065, -24), sin |-> Fin(1, 11484794, -24) ],
      [ angle |-> Fin(-1, 16339224, -22), cos |-> Fin(-1, 12230068, -24), sin |-> Fin(1, 11484791, -24) ],
      [ angle |-> Fin(-1, 16339223, -22), cos |-> Fin(-1, 12230071, -24), sin |-> Fin(1, 11484788, -24) ],
      [ angle |-> Fin(-1, 16200034, -22), cos |-> Fin(-1, 12604392, -24), sin |-> Fin(1, 11072681, -24) ],
      [ angle |-> Fin(-1, 16183335, -22), cos |-> Fin(-1, 12648377, -24), sin |-> Fin(1, 11022411, -24) ],
      [ angle |-> Fin(-1, 16183333, -22), cos |-> Fin(-1, 12648382, -24), sin |-> Fin(1, 11022405, -24) ],
      [ angle |-> Fin(-1, 16129509, -22), cos |-> Fin(-1, 12788783, -24), sin |-> Fin(1, 10859190, -24) ],
      [ angle |-> Fin(-1, 16129508, -22), cos |-> Fin(-1, 12788786, -24), sin |-> Fin(1, 10859187, -24) ],
      [ angle |-> Fin(-1, 15990321, -22), cos |-> Fin(-1, 13142038, -24), sin |-> Fin(1, 10428893, -24) ],
      [ angle |-> Fin(-1, 15990320, -22), cos |-> Fin(-1, 13142041, -24), sin |-> Fin(1, 10428890, -24) ],
      [ angle |-> Fin(-1, 15990319, -22), cos |-> Fin(-1, 13142043, -24), sin |-> Fin(1, 10428887, -24) ],
      [ angle |-> Fin(-1, 15990317, -22), cos |-> Fin(-1, 13142048, -24), sin |-> Fin(1, 10428880, -24) ],
      [ angle |-> Fin(-1, 15973619, -22), cos |-> Fin(-1, 13183462, -24), sin |-> Fin(1, 10376478, -24) ],
      [ angle |-> Fin(-1, 15973617, -22), cos |-> Fin(-1, 13183467, -24), sin |-> Fin(1, 10376472, -24) ],
      [ angle |-> Fin(-1, 15973615, -22), cos |-> Fin(-1, 13183472, -24), sin |-> Fin(1, 10376465, -24) ],
      [ angle |-> Fin(-1, 15780605, -22), cos |-> Fin(-1, 13646843, -24), sin |-> Fin(1, 9759029, -24) ],
      [ angle |-> Fin(-1, 15780604, -22), cos |-> Fin(-1, 13646846, -24), sin |-> Fin(1, 9759026, -24) ],
      [ angle |-> Fin(-1, 15763903, -22), cos |-> Fin(-1, 13685596, -24), sin |-> Fin(1, 9704609, -24) ],
      [ angle |-> Fin(-1, 15570890, -22), cos |-> Fin(-1, 14117536, -24), sin |-> Fin(1, 9064775, -24) ],
      [ angle |-> Fin(-1, 15570889, -22), cos |-> Fin(-1, 14117538, -24), sin |-> Fin(1, 9064772, -24) ],
      [ angle |-> Fin(-1, 15570888, -22), cos |-> Fin(-1, 14117540, -24), sin |-> Fin(1, 9064769, -24) ],
      [ angle |-> Fin(-1, 15554189, -22), cos |-> Fin(-1, 14153518, -24), sin |-> Fin(1, 9008490, -24) ],
      [ angle |-> Fin(-1, 15361174, -22), cos |-> Fin(-1, 14552944, -24), sin |-> Fin(1, 16695723, -25) ],
      [ angle |-> Fin(-1, 15361173, -22), cos |-> Fin(-1, 14552946, -24), sin |-> Fin(1, 16695716, -25) ],
      [ angle |-> Fin(-1, 15151461, -22), cos |-> Fin(-1, 14951972, -24), sin |-> Fin(1, 15220185, -25) ],
      [ angle |-> Fin(-1, 15151459, -22), cos |-> Fin(-1, 14951976, -24), sin |-> Fin(1, 15220171, -25) ],
      [ angle |-> Fin(-1, 15151458, -22), cos |-> Fin(-1, 14951978, -24), sin |-> Fin(1, 15220163, -25) ],
      [ angle |-> Fin(-1, 15151457, -22), cos |-> Fin(-1, 14951979, -24), sin |-> Fin(1, 15220156, -25) ],
      [ angle |-> Fin(-1, 14941744, -22), cos |-> Fin(-1, 15313635, -24), sin |-> Fin(1, 13706576, -25) ],
      [ angle |-> Fin(-1, 13596227, -22), cos |-> Fin(-1, 16693399, -24), sin |-> Fin(1, 13399477, -27) ],
      [ angle |-> Fin(-1, 13596225, -22), cos |-> Fin(-1, 16693400, -24), sin |-> Fin(1, 13399413, -27) ],
      [ angle |-> Fin(-1, 13596223, -22), cos |-> Fin(-1, 16693401, -24), sin |-> Fin(1, 13399350, -27) ],
      [ angle |-> Fin(-1, 13386511, -22), cos |-> Fin(-1, 16756249, -24), sin |-> Fin(1, 13416256, -28) ],
      [ angle |-> Fin(-1, 13386510, -22), cos |-> Fin(-1, 16756249, -24), sin |-> Fin(1, 13416192, -28) ],
      [ angle |-> Fin(-1, 13193498, -22), cos |-> Fin(-1, 16777083, -24), sin |-> Fin(1, 8552101, -31) ],
      [ angle |-> Fin(-1, 13193497, -22), cos |-> Fin(-1, 16777083, -24), sin |-> Fin(1, 8551589, -31) ],
      [ angle |-> Fin(-1, 13176796, -22), cos |-> Fin(-1, 8388608, -23), sin |-> Fin(1, 11464524, -45) ],
      [ angle |-> Fin(-1, 13176795, -22), cos |-> Fin(-1, 8388608, -23), sin |-> Fin(1, 12303662, -47) ],
      [ angle |-> Fin(-1, 13176794, -22), cos |-> Fin(-1, 8388608, -23), sin |-> Fin(-1, 10625385, -46) ],
      [ angle |-> Fin(-1, 12983783, -22), cos |-> Fin(-1, 16759455, -24), sin |-> Fin(-1, 12348385, -28) ],
      [ angle |-> Fin(-1, 12983782, -22), cos |-> Fin(-1, 16759455, -24), sin |-> Fin(-1, 12348449, -28) ],
      [ angle |-> Fin(-1, 12983780, -22), cos |-> Fin(-1, 16759455, -24), sin |-> Fin(-1, 12348577, -28) ],
      [ angle |-> Fin(-1, 12967080, -22), cos |-> Fin(-1, 16756249, -24), sin |-> Fin(-1, 13416145, -28) ],
      [ angle |-> Fin(-1, 12967079, -22), cos |-> Fin(-1, 16756249, -24), sin |-> Fin(-1, 13416209, -28) ],
      [ angle |-> Fin(-1, 12774067, -22), cos |-> Fin(-1, 16699937, -24), sin |-> Fin(-1, 12867491, -27) ],
      [ angle |-> Fin(-1, 12774066, -22), cos |-> Fin(-1, 16699937, -24), sin |-> Fin(-1, 12867523, -27) ],
      [ angle |-> Fin(-1, 12774065, -22), cos |-> Fin(-1, 16699937, -24), sin |-> Fin(-1, 12867555, -27) ],
      [ angle |-> Fin(-1, 12757367, -22), cos |-> Fin(-1, 16693401, -24), sin |-> Fin(-1, 13399326, -27) ],
      [ angle |-> Fin(-1, 12757365, -22), cos |-> Fin(-1, 16693400, -24), sin |-> Fin(-1, 13399390, -27) ],
      [ angle |-> Fin(-1, 12757363, -22), cos |-> Fin(-1, 16693399, -24), sin |-> Fin(-1, 13399454, -27) ],
      [ angle |-> Fin(-1, 12564353, -22), cos |-> Fin(-1, 16598679, -24), sin |-> Fin(-1, 9764282, -26) ],
      [ angle |-> Fin(-1, 12564352, -22), cos |-> Fin(-1, 16598679, -24), sin |-> Fin(-1, 9764298, -26) ],
      [ angle |-> Fin(-1, 12564351, -22), cos |-> Fin(-1, 16598678, -24), sin |-> Fin(-1, 9764314, -26) ],
      [ angle |-> Fin(-1, 12564350, -22), cos |-> Fin(-1, 16598677, -24), sin |-> Fin(-1, 9764330, -26) ],
      [ angle |-> Fin(-1, 12564349, -22), cos |-> Fin(-1, 16598677, -24), sin |-> Fin(-1, 9764345, -26) ],
      [ angle |-> Fin(-1, 12354637, -22), cos |-> Fin(-1, 16455932, -24), sin |-> Fin(-1, 13070445, -26) ],
      [ angle |-> Fin(-1, 12354636, -22), cos |-> Fin(-1, 16455931, -24), sin |-> Fin(-1, 13070460, -26) ],
      [ angle |-> Fin(-1, 12354635, -22), cos |-> Fin(-1, 16455930, -24), sin |-> Fin(-1, 13070476, -26) ],
      [ angle |-> Fin(-1, 12354634, -22), cos |-> Fin(-1, 16455930, -24), sin |-> Fin(-1, 13070492, -26) ],
      [ angle |-> Fin(-1, 12144921, -22), cos |-> Fin(-1, 16272053, -24), sin |-> Fin(-1, 16343938, -26) ],
      [ angle |-> Fin(-1, 12144920, -22), cos |-> Fin(-1, 16272052, -24), sin |-> Fin(-1, 16343953, -26) ],
      [ angle |-> Fin(-1, 12144919, -22), cos |-> Fin(-1, 16272051, -24), sin |-> Fin(-1, 16343969, -26) ],
      [ angle |-> Fin(-1, 11935204, -22), cos |-> Fin(-1, 16047501, -24), sin |-> Fin(-1, 9788297, -25) ],
      [ angle |-> Fin(-1, 11935203, -22), cos |-> Fin(-1, 16047500, -24), sin |-> Fin(-1, 9788305, -25) ],
      [ angle |-> Fin(-1, 9750827, -22), cos |-> Fin(-1, 11484792, -24), sin |-> Fin(-1, 12230067, -24) ],
      [ angle |-> Fin(-1, 9750826, -22), cos |-> Fin(-1, 11484789, -24), sin |-> Fin(-1, 12230070, -24) ],
      [ angle |-> Fin(-1, 9750825, -22), cos |-> Fin(-1, 11484786, -24), sin |-> Fin(-1, 12230072, -24) ],
      [ angle |-> Fin(-1, 9611636, -22), cos |-> Fin(-1, 11072679, -24), sin |-> Fin(-1, 12604394, -24) ],
      [ angle |-> Fin(-1, 9541111, -22), cos |-> Fin(-1, 10859188, -24), sin |-> Fin(-1, 12788785, -24) ],
      [ angle |-> Fin(-1, 9541110, -22), cos |-> Fin(-1, 10859185, -24), sin |-> Fin(-1, 12788788, -24) ],
      [ angle |-> Fin(-1, 9401923, -22), cos |-> Fin(-1, 10428891, -24), sin |-> Fin(-1, 13142040, -24) ],
      [ angle |-> Fin(-1, 9401922, -22), cos |-> Fin(-1, 10428888, -24), sin |-> Fin(-1, 13142042, -24) ],
      [ angle |-> Fin(-1, 9401921, -22), cos |-> Fin(-1, 10428885, -24), sin |-> Fin(-1, 13142045, -24) ],
      [ angle |-> Fin(-1, 9401919, -22), cos |-> Fin(-1, 10428878, -24), sin |-> Fin(-1, 13142050, -24) ],
      [ angle |-> Fin(-1, 9192207, -22), cos |-> Fin(-1, 9759027, -24), sin |-> Fin(-1, 13646845, -24) ],
      [ angle |-> Fin(-1, 9192206, -22), cos |-> Fin(-1, 9759023, -24), sin |-> Fin(-1, 13646847, -24) ],
      [ angle |-> Fin(-1, 8982492, -22), cos |-> Fin(-1, 9064773, -24), sin |-> Fin(-1, 14117538, -24) ],
      [ angle |-> Fin(-1, 8982491, -22), cos |-> Fin(-1, 9064770, -24), sin |-> Fin(-1, 14117540, -24) ],
      [ angle |-> Fin(-1, 8982490, -22), cos |-> Fin(-1, 9064766, -24), sin |-> Fin(-1, 14117542, -24) ],
      [ angle |-> Fin(-1, 8772776, -22), cos |-> Fin(-1, 16695718, -25), sin |-> Fin(-1, 14552946, -24) ],
      [ angle |-> Fin(-1, 8772775, -22), cos |-> Fin(-1, 16695711, -25), sin |-> Fin(-1, 14552948, -24) ],
      [ angle |-> Fin(-1, 8563063, -22), cos |-> Fin(-1, 15220180, -25), sin |-> Fin(-1, 14951973, -24) ],
      [ angle |-> Fin(-1, 8563061, -22), cos |-> Fin(-1, 15220166, -25), sin |-> Fin(-1, 14951977, -24) ],
      [ angle |-> Fin(-1, 8563060, -22), cos |-> Fin(-1, 15220159, -25), sin |-> Fin(-1, 14951979, -24) ],
      [ angle |-> Fin(-1, 8563059, -22), cos |-> Fin(-1, 15220151, -25), sin |-> Fin(-1, 14951981, -24) ],
      [ angle |-> Fin(-1, 16706692, -23), cos |-> Fin(-1, 13706571, -25), sin |-> Fin(-1, 15313636, -24) ],
      [ angle |-> Fin(-1, 13210200, -23), cos |-> Fin(-1, 8551751, -31), sin |-> Fin(-1, 16777083, -24) ],
      [ angle |-> Fin(-1, 13210198, -23), cos |-> Fin(-1, 8551239, -31), sin |-> Fin(-1, 16777083, -24) ],
      [ angle |-> Fin(-1, 12790770, -23), cos |-> Fin(1, 12348429, -28), sin |-> Fin(-1, 16759455, -24) ],
      [ angle |-> Fin(-1, 12790768, -23), cos |-> Fin(1, 12348493, -28), sin |-> Fin(-1, 16759455, -24) ],
      [ angle |-> Fin(-1, 12790764, -23), cos |-> Fin(1, 12348621, -28), sin |-> Fin(-1, 16759455, -24) ],
      [ angle |-> Fin(-1, 12371338, -23), cos |-> Fin(1, 12867513, -27), sin |-> Fin(-1, 16699937, -24) ],
      [ angle |-> Fin(-1, 12371336, -23), cos |-> Fin(1, 12867545, -27), sin |-> Fin(-1, 16699937, -24) ],
      [ angle |-> Fin(-1, 12371334, -23), cos |-> Fin(1, 12867577, -27), sin |-> Fin(-1, 16699936, -24) ],
      [ angle |-> Fin(-1, 11951910, -23), cos |-> Fin(1, 9764293, -26), sin |-> Fin(-1, 16598679, -24) ],
      [ angle |-> Fin(-1, 11951908, -23), cos |-> Fin(1, 9764309, -26), sin |-> Fin(-1, 16598678, -24) ],
      [ angle |-> Fin(-1, 11951906, -23), cos |-> Fin(1, 9764325, -26), sin |-> Fin(-1, 16598678, -24) ],
      [ angle |-> Fin(-1, 11951904, -23), cos |-> Fin(1, 9764340, -26), sin |-> Fin(-1, 16598677, -24) ],
      [ angle |-> Fin(-1, 11951902, -23), cos |-> Fin(1, 9764356, -26), sin |-> Fin(-1, 16598676, -24) ],
      [ angle |-> Fin(-1, 11532478, -23), cos |-> Fin(1, 13070455, -26), sin |-> Fin(-1, 16455931, -24) ],
      [ angle |-> Fin(-1, 11532476, -23), cos |-> Fin(1, 13070471, -26), sin |-> Fin(-1, 16455931, -24) ],
      [ angle |-> Fin(-1, 11532474, -23), cos |-> Fin(1, 13070487, -26), sin |-> Fin(-1, 16455930, -24) ],
      [ angle |-> Fin(-1, 11532472, -23), cos |-> Fin(1, 13070502, -26), sin |-> Fin(-1, 16455929, -24) ],
      [ angle |-> Fin(-1, 11113046, -23), cos |-> Fin(1, 16343948, -26), sin |-> Fin(-1, 16272052, -24) ],
      [ angle |-> Fin(-1, 11113044, -23), cos |-> Fin(1, 16343964, -26), sin |-> Fin(-1, 16272051, -24) ],
      [ angle |-> Fin(-1, 11113042, -23), cos |-> Fin(1, 16343979, -26), sin |-> Fin(-1, 16272050, -24) ],
      [ angle |-> Fin(-1, 10693612, -23), cos |-> Fin(1, 9788302, -25), sin |-> Fin(-1, 16047500, -24) ],
      [ angle |-> Fin(-1, 10693610, -23), cos |-> Fin(1, 9788310, -25), sin |-> Fin(-1, 16047499, -24) ],
      [ angle |-> Fin(-1, 9932736, -25), cos |-> Fin(1, 16047499, -24), sin |-> Fin(-1, 9788308, -25) ],
      [ angle |-> Fin(-1, 9932730, -25), cos |-> Fin(1, 16047500, -24), sin |-> Fin(-1, 9788302, -25) ],
      [ angle |-> Fin(-1, 9932726, -25), cos |-> Fin(1, 16047501, -24), sin |-> Fin(-1, 9788298, -25) ],
      [ angle |-> Fin(-1, 16510028, -26), cos |-> Fin(1, 16272050, -24), sin |-> Fin(-1, 16343986, -26) ],
      [ angle |-> Fin(-1, 16510016, -26), cos |-> Fin(1, 16272051, -24), sin |-> Fin(-1, 16343974, -26) ],
      [ angle |-> Fin(-1, 16510012, -26), cos |-> Fin(1, 16272051, -24), sin |-> Fin(-1, 16343971, -26) ],
      [ angle |-> Fin(-1, 16510004, -26), cos |-> Fin(1, 16272051, -24), sin |-> Fin(-1, 16343963, -26) ],
      [ angle |-> Fin(-1, 16509996, -26), cos |-> Fin(1, 16272052, -24), sin |-> Fin(-1, 16343955, -26) ],
      [ angle |-> Fin(-1, 13154604, -26), cos |-> Fin(1, 16455928, -24), sin |-> Fin(-1, 13070525, -26) ],
      [ angle |-> Fin(-1, 13154584, -26), cos |-> Fin(1, 16455929, -24), sin |-> Fin(-1, 13070505, -26) ],
      [ angle |-> Fin(-1, 13154572, -26), cos |-> Fin(1, 16455929, -24), sin |-> Fin(-1, 13070494, -26) ],
      [ angle |-> Fin(-1, 13154560, -26), cos |-> Fin(1, 16455930, -24), sin |-> Fin(-1, 13070482, -26) ],
      [ angle |-> Fin(-1, 13154556, -26), cos |-> Fin(1, 16455930, -24), sin |-> Fin(-1, 13070478, -26) ],
      [ angle |-> Fin(-1, 13154548, -26), cos |-> Fin(1, 16455931, -24), sin |-> Fin(-1, 13070470, -26) ],
      [ angle |-> Fin(-1, 13154540, -26), cos |-> Fin(1, 16455931, -24), sin |-> Fin(-1, 13070462, -26) ],
      [ angle |-> Fin(-1, 9799148, -26), cos |-> Fin(1, 16598676, -24), sin |-> Fin(-1, 9764363, -26) ],
      [ angle |-> Fin(-1, 9799132, -26), cos |-> Fin(1, 16598677, -24), sin |-> Fin(-1, 9764347, -26) ],
      [ angle |-> Fin(-1, 9799128, -26), cos |-> Fin(1, 16598677, -24), sin |-> Fin(-1, 9764343, -26) ],
      [ angle |-> Fin(-1, 9799116, -26), cos |-> Fin(1, 16598677, -24), sin |-> Fin(-1, 9764331, -26) ],
      [ angle |-> Fin(-1, 9799104, -26), cos |-> Fin(1, 16598678, -24), sin |-> Fin(-1, 9764320, -26) ],
      [ angle |-> Fin(-1, 9799100, -26), cos |-> Fin(1, 16598678, -24), sin |-> Fin(-1, 9764316, -26) ],
      [ angle |-> Fin(-1, 12887384, -27), cos |-> Fin(1, 16699936, -24), sin |-> Fin(-1, 12867590, -27) ],
      [ angle |-> Fin(-1, 12887368, -27), cos |-> Fin(1, 16699936, -24), sin |-> Fin(-1, 12867575, -27) ],
      [ angle |-> Fin(-1, 12887352, -27), cos |-> Fin(1, 16699937, -24), sin |-> Fin(-1, 12867559, -27) ],
      [ angle |-> Fin(-1, 12887344, -27), cos |-> Fin(1, 16699937, -24), sin |-> Fin(-1, 12867551, -27) ],
      [ angle |-> Fin(-1, 12887320, -27), cos |-> Fin(1, 16699937, -24), sin |-> Fin(-1, 12867527, -27) ],
      [ angle |-> Fin(-1, 12887296, -27), cos |-> Fin(1, 16699937, -24), sin |-> Fin(-1, 12867503, -27) ],
      [ angle |-> Fin(-1, 12352944, -28), cos |-> Fin(1, 16759455, -24), sin |-> Fin(-1, 12348585, -28) ],
      [ angle |-> Fin(-1, 12352912, -28), cos |-> Fin(1, 16759455, -24), sin |-> Fin(-1, 12348553, -28) ],
      [ angle |-> Fin(-1, 12352880, -28), cos |-> Fin(1, 16759455, -24), sin |-> Fin(-1, 12348521, -28) ],
      [ angle |-> Fin(-1, 12352864, -28), cos |-> Fin(1, 16759455, -24), sin |-> Fin(-1, 12348505, -28) ],
      [ angle |-> Fin(-1, 12352816, -28), cos |-> Fin(1, 16759455, -24), sin |-> Fin(-1, 12348457, -28) ],
      [ angle |-> Fin(1, 8551040, -31), cos |-> Fin(1, 16777083, -24), sin |-> Fin(1, 8551017, -31) ],
      [ angle |-> Fin(1, 8551296, -31), cos |-> Fin(1, 16777083, -24), sin |-> Fin(1, 8551273, -31) ],
      [ angle |-> Fin(1, 8551680, -31), cos |-> Fin(1, 16777083, -24), sin |-> Fin(1, 8551657, -31) ],
      [ angle |-> Fin(1, 14119586, -25), cos |-> Fin(1, 15313637, -24), sin |-> Fin(1, 13706568, -25) ],
      [ angle |-> Fin(1, 15797290, -25), cos |-> Fin(1, 14951981, -24), sin |-> Fin(1, 15220148, -25) ],
      [ angle |-> Fin(1, 15797298, -25), cos |-> Fin(1, 14951980, -24), sin |-> Fin(1, 15220155, -25) ],
      [ angle |-> Fin(1, 15797306, -25), cos |-> Fin(1, 14951978, -24), sin |-> Fin(1, 15220163, -25) ],
      [ angle |-> Fin(1, 8737509, -24), cos |-> Fin(1, 14552949, -24), sin |-> Fin(1, 16695708, -25) ],
      [ angle |-> Fin(1, 8737513, -24), cos |-> Fin(1, 14552947, -24), sin |-> Fin(1, 16695715, -25) ],
      [ angle |-> Fin(1, 9576369, -24), cos |-> Fin(1, 14117543, -24), sin |-> Fin(1, 9064765, -24) ],
      [ angle |-> Fin(1, 9576373, -24), cos |-> Fin(1, 14117541, -24), sin |-> Fin(1, 9064768, -24) ],
      [ angle |-> Fin(1, 9576377, -24), cos |-> Fin(1, 14117538, -24), sin |-> Fin(1, 9064772, -24) ],
      [ angle |-> Fin(1, 10415233, -24), cos |-> Fin(1, 13646848, -24), sin |-> Fin(1, 9759022, -24) ],
      [ angle |-> Fin(1, 10415237, -24), cos |-> Fin(1, 13646846, -24), sin |-> Fin(1, 9759025, -24) ],
      [ angle |-> Fin(1, 11254093, -24), cos |-> Fin(1, 13142046, -24), sin |-> Fin(1, 10428883, -24) ],
      [ angle |-> Fin(1, 11254097, -24), cos |-> Fin(1, 13142043, -24), sin |-> Fin(1, 10428886, -24) ],
      [ angle |-> Fin(1, 11254101, -24), cos |-> Fin(1, 13142041, -24), sin |-> Fin(1, 10428890, -24) ],
      [ angle |-> Fin(1, 11810849, -24), cos |-> Fin(1, 12788789, -24), sin |-> Fin(1, 10859183, -24) ],
      [ angle |-> Fin(1, 11810853, -24), cos |-> Fin(1, 12788786, -24), sin |-> Fin(1, 10859186, -24) ],
      [ angle |-> Fin(1, 12092953, -24), cos |-> Fin(1, 12604395, -24), sin |-> Fin(1, 11072678, -24) ],
      [ angle |-> Fin(1, 12649709, -24), cos |-> Fin(1, 12230074, -24), sin |-> Fin(1, 11484785, -24) ],
      [ angle |-> Fin(1, 12649713, -24), cos |-> Fin(1, 12230071, -24), sin |-> Fin(1, 11484788, -24) ],
      [ angle |-> Fin(1, 12649717, -24), cos |-> Fin(1, 12230068, -24), sin |-> Fin(1, 11484790, -24) ],
      [ angle |-> Fin(1, 13488565, -24), cos |-> Fin(1, 11640793, -24), sin |-> Fin(1, 12081677, -24) ],
      [ angle |-> Fin(1, 13488569, -24), cos |-> Fin(1, 11640790, -24), sin |-> Fin(1, 12081680, -24) ],
      [ angle |-> Fin(1, 13488573, -24), cos |-> Fin(1, 11640787, -24), sin |-> Fin(1, 12081683, -24) ],
      [ angle |-> Fin(1, 13488577, -24), cos |-> Fin(1, 11640784, -24), sin |-> Fin(1, 12081685, -24) ],
      [ angle |-> Fin(1, 13488581, -24), cos |-> Fin(1, 11640781, -24), sin |-> Fin(1, 12081688, -24) ],
      [ angle |-> Fin(1, 14327429, -24), cos |-> Fin(1, 11022410, -24), sin |-> Fin(1, 12648377, -24) ],
      [ angle |-> Fin(1, 14327433, -24), cos |-> Fin(1, 11022407, -24), sin |-> Fin(1, 12648380, -24) ],
      [ angle |-> Fin(1, 14327437, -24), cos |-> Fin(1, 11022404, -24), sin |-> Fin(1, 12648383, -24) ],
      [ angle |-> Fin(1, 14327441, -24), cos |-> Fin(1, 11022401, -24), sin |-> Fin(1, 12648385, -24) ],
      [ angle |-> Fin(1, 15166293, -24), cos |-> Fin(1, 10376477, -24), sin |-> Fin(1, 13183463, -24) ],
      [ angle |-> Fin(1, 15166297, -24), cos |-> Fin(1, 10376474, -24), sin |-> Fin(1, 13183466, -24) ],
      [ angle |-> Fin(1, 15166301, -24), cos |-> Fin(1, 10376471, -24), sin |-> Fin(1, 13183468, -24) ],
      [ angle |-> Fin(1, 15166305, -24), cos |-> Fin(1, 10376468, -24), sin |-> Fin(1, 13183471, -24) ],
      [ angle |-> Fin(1, 16005157, -24), cos |-> Fin(1, 9704608, -24), sin |-> Fin(1, 13685597, -24) ],
      [ angle |-> Fin(1, 16005161, -24), cos |-> Fin(1, 9704605, -24), sin |-> Fin(1, 13685599, -24) ],
      [ angle |-> Fin(1, 16005165, -24), cos |-> Fin(1, 9704601, -24), sin |-> Fin(1, 13685601, -24) ],
      [ angle |-> Fin(1, 8422010, -23), cos |-> Fin(1, 9008483, -24), sin |-> Fin(1, 14153523, -24) ],
      [ angle |-> Fin(1, 8422012, -23), cos |-> Fin(1, 9008480, -24), sin |-> Fin(1, 14153525, -24) ],
      [ angle |-> Fin(1, 10693611, -23), cos |-> Fin(1, 9788306, -25), sin |-> Fin(1, 16047500, -24) ],
      [ angle |-> Fin(1, 10693612, -23), cos |-> Fin(1, 9788302, -25), sin |-> Fin(1, 16047500, -24) ],
      [ angle |-> Fin(1, 10693614, -23), cos |-> Fin(1, 9788295, -25), sin |-> Fin(1, 16047501, -24) ],
      [ angle |-> Fin(1, 11079644, -23), cos |-> Fin(1, 16602988, -26), sin |-> Fin(1, 16255654, -24) ],
      [ angle |-> Fin(1, 11113042, -23), cos |-> Fin(1, 16343979, -26), sin |-> Fin(1, 16272050, -24) ],
      [ angle |-> Fin(1, 11113043, -23), cos |-> Fin(1, 16343972, -26), sin |-> Fin(1, 16272051, -24) ],
      [ angle |-> Fin(1, 11113044, -23), cos |-> Fin(1, 16343964, -26), sin |-> Fin(1, 16272051, -24) ],
      [ angle |-> Fin(1, 11113046, -23), cos |-> Fin(1, 16343948, -26), sin |-> Fin(1, 16272052, -24) ],
      [ angle |-> Fin(1, 11499074, -23), cos |-> Fin(1, 13332466, -26), sin |-> Fin(1, 16442789, -24) ],
      [ angle |-> Fin(1, 11532470, -23), cos |-> Fin(1, 13070518, -26), sin |-> Fin(1, 16455928, -24) ],
      [ angle |-> Fin(1, 11532472, -23), cos |-> Fin(1, 13070502, -26), sin |-> Fin(1, 16455929, -24) ],
      [ angle |-> Fin(1, 11532474, -23), cos |-> Fin(1, 13070487, -26), sin |-> Fin(1, 16455930, -24) ],
      [ angle |-> Fin(1, 11532475, -23), cos |-> Fin(1, 13070479, -26), sin |-> Fin(1, 16455930, -24) ],
      [ angle |-> Fin(1, 11532476, -23), cos |-> Fin(1, 13070471, -26), sin |-> Fin(1, 16455931, -24) ],
      [ angle |-> Fin(1, 11532478, -23), cos |-> Fin(1, 13070455, -26), sin |-> Fin(1, 16455931, -24) ],
      [ angle |-> Fin(1, 11918504, -23), cos |-> Fin(1, 10028619, -26), sin |-> Fin(1, 16588826, -24) ],
      [ angle |-> Fin(1, 11951902, -23), cos |-> Fin(1, 9764356, -26), sin |-> Fin(1, 16598676, -24) ],
      [ angle |-> Fin(1, 11951904, -23), cos |-> Fin(1, 9764340, -26), sin |-> Fin(1, 16598677, -24) ],
      [ angle |-> Fin(1, 11951906, -23), cos |-> Fin(1, 9764325, -26), sin |-> Fin(1, 16598678, -24) ],
      [ angle |-> Fin(1, 11951907, -23), cos |-> Fin(1, 9764317, -26), sin |-> Fin(1, 16598678, -24) ],
      [ angle |-> Fin(1, 11951908, -23), cos |-> Fin(1, 9764309, -26), sin |-> Fin(1, 16598678, -24) ],
      [ angle |-> Fin(1, 12337928, -23), cos |-> Fin(1, 13399507, -27), sin |-> Fin(1, 16693399, -24) ],
      [ angle |-> Fin(1, 12337930, -23), cos |-> Fin(1, 13399475, -27), sin |-> Fin(1, 16693399, -24) ],
      [ angle |-> Fin(1, 12337934, -23), cos |-> Fin(1, 13399412, -27), sin |-> Fin(1, 16693400, -24) ],
      [ angle |-> Fin(1, 12371334, -23), cos |-> Fin(1, 12867577, -27), sin |-> Fin(1, 16699936, -24) ],
      [ angle |-> Fin(1, 12371336, -23), cos |-> Fin(1, 12867545, -27), sin |-> Fin(1, 16699937, -24) ],
      [ angle |-> Fin(1, 12371338, -23), cos |-> Fin(1, 12867513, -27), sin |-> Fin(1, 16699937, -24) ],
      [ angle |-> Fin(1, 12371339, -23), cos |-> Fin(1, 12867497, -27), sin |-> Fin(1, 16699937, -24) ],
      [ angle |-> Fin(1, 12757358, -23), cos |-> Fin(1, 13416380, -28), sin |-> Fin(1, 16756248, -24) ],
      [ angle |-> Fin(1, 12757360, -23), cos |-> Fin(1, 13416316, -28), sin |-> Fin(1, 16756248, -24) ],
      [ angle |-> Fin(1, 12757362, -23), cos |-> Fin(1, 13416252, -28), sin |-> Fin(1, 16756249, -24) ],
      [ angle |-> Fin(1, 12757364, -23), cos |-> Fin(1, 13416189, -28), sin |-> Fin(1, 16756249, -24) ],
      [ angle |-> Fin(1, 12757366, -23), cos |-> Fin(1, 13416125, -28), sin |-> Fin(1, 16756249, -24) ],
      [ angle |-> Fin(1, 12790766, -23), cos |-> Fin(1, 12348557, -28), sin |-> Fin(1, 16759455, -24) ],
      [ angle |-> Fin(1, 12790768, -23), cos |-> Fin(1, 12348493, -28), sin |-> Fin(1, 16759455, -24) ],
      [ angle |-> Fin(1, 12790770, -23), cos |-> Fin(1, 12348429, -28), sin |-> Fin(1, 16759455, -24) ],
      [ angle |-> Fin(1, 13176788, -23), cos |-> Fin(1, 13911085, -44), sin |-> Fin(1, 8388608, -23) ],
      [ angle |-> Fin(1, 13176790, -23), cos |-> Fin(1, 9716781, -44), sin |-> Fin(1, 8388608, -23) ],
      [ angle |-> Fin(1, 13176792, -23), cos |-> Fin(1, 11044954, -45), sin |-> Fin(1, 8388608, -23) ],
      [ angle |-> Fin(1, 13176794, -23), cos |-> Fin(1, 10625385, -47), sin |-> Fin(1, 8388608, -23) ],
      [ angle |-> Fin(1, 13176796, -23), cos |-> Fin(-1, 11464524, -46), sin |-> Fin(1, 8388608, -23) ],
      [ angle |-> Fin(1, 13176798, -23), cos |-> Fin(-1, 14120870, -45), sin |-> Fin(1, 8388608, -23) ],
      [ angle |-> Fin(1, 13210198, -23), cos |-> Fin(-1, 8551239, -31), sin |-> Fin(1, 16777083, -24) ],
      [ angle |-> Fin(1, 13210200, -23), cos |-> Fin(-1, 8551751, -31), sin |-> Fin(1, 16777083, -24) ],
      [ angle |-> Fin(1, 13596220, -23), cos |-> Fin(-1, 13416020, -28), sin |-> Fin(1, 16756249, -24) ],
      [ angle |-> Fin(1, 13596222, -23), cos |-> Fin(-1, 13416084, -28), sin |-> Fin(1, 16756249, -24) ],
      [ angle |-> Fin(1, 13596224, -23), cos |-> Fin(-1, 13416148, -28), sin |-> Fin(1, 16756249, -24) ],
      [ angle |-> Fin(1, 13596226, -23), cos |-> Fin(-1, 13416212, -28), sin |-> Fin(1, 16756249, -24) ],
      [ angle |-> Fin(1, 13596230, -23), cos |-> Fin(-1, 13416340, -28), sin |-> Fin(1, 16756248, -24) ],
      [ angle |-> Fin(1, 14015652, -23), cos |-> Fin(-1, 13399360, -27), sin |-> Fin(1, 16693400, -24) ],
      [ angle |-> Fin(1, 14015654, -23), cos |-> Fin(-1, 13399392, -27), sin |-> Fin(1, 16693400, -24) ],
      [ angle |-> Fin(1, 14015656, -23), cos |-> Fin(-1, 13399423, -27), sin |-> Fin(1, 16693400, -24) ],
      [ angle |-> Fin(1, 14015662, -23), cos |-> Fin(-1, 13399519, -27), sin |-> Fin(1, 16693398, -24) ],
      [ angle |-> Fin(1, 14435084, -23), cos |-> Fin(-1, 10028609, -26), sin |-> Fin(1, 16588826, -24) ],
      [ angle |-> Fin(1, 14854514, -23), cos |-> Fin(-1, 13332456, -26), sin |-> Fin(1, 16442790, -24) ],
      [ angle |-> Fin(1, 15273944, -23), cos |-> Fin(-1, 16602978, -26), sin |-> Fin(1, 16255654, -24) ],
      [ angle |-> Fin(1, 16706692, -23), cos |-> Fin(-1, 13706571, -25), sin |-> Fin(1, 15313636, -24) ],
      [ angle |-> Fin(1, 8563059, -22), cos |-> Fin(-1, 15220151, -25), sin |-> Fin(1, 14951981, -24) ],
      [ angle |-> Fin(1, 8563060, -22), cos |-> Fin(-1, 15220159, -25), sin |-> Fin(1, 14951979, -24) ],
      [ angle |-> Fin(1, 8563061, -22), cos |-> Fin(-1, 15220166, -25), sin |-> Fin(1, 14951977, -24) ],
      [ angle |-> Fin(1, 8772775, -22), cos |-> Fin(-1, 16695711, -25), sin |-> Fin(1, 14552948, -24) ],
      [ angle |-> Fin(1, 8772776, -22), cos |-> Fin(-1, 16695718, -25), sin |-> Fin(1, 14552946, -24) ],
      [ angle |-> Fin(1, 8965788, -22), cos |-> Fin(-1, 9008478, -24), sin |-> Fin(1, 14153526, -24) ],
      [ angle |-> Fin(1, 8965789, -22), cos |-> Fin(-1, 9008481, -24), sin |-> Fin(1, 14153524, -24) ],
      [ angle |-> Fin(1, 8965791, -22), cos |-> Fin(-1, 9008488, -24), sin |-> Fin(1, 14153520, -24) ],
      [ angle |-> Fin(1, 8982490, -22), cos |-> Fin(-1, 9064766, -24), sin |-> Fin(1, 14117542, -24) ],
      [ angle |-> Fin(1, 8982491, -22), cos |-> Fin(-1, 9064770, -24), sin |-> Fin(1, 14117540, -24) ],
      [ angle |-> Fin(1, 8982492, -22), cos |-> Fin(-1, 9064773, -24), sin |-> Fin(1, 14117538, -24) ],
      [ angle |-> Fin(1, 9175503, -22), cos |-> Fin(-1, 9704600, -24), sin |-> Fin(1, 13685602, -24) ],
      [ angle |-> Fin(1, 9175504, -22), cos |-> Fin(-1, 9704603, -24), sin |-> Fin(1, 13685600, -24) ],
      [ angle |-> Fin(1, 9175505, -22), cos |-> Fin(-1, 9704607, -24), sin |-> Fin(1, 13685598, -24) ],
      [ angle |-> Fin(1, 9175507, -22), cos |-> Fin(-1, 9704613, -24), sin |-> Fin(1, 13685593, -24) ],
      [ angle |-> Fin(1, 9192206, -22), cos |-> Fin(-1, 9759023, -24), sin |-> Fin(1, 13646847, -24) ],
      [ angle |-> Fin(1, 9192207, -22), cos |-> Fin(-1, 9759027, -24), sin |-> Fin(1, 13646845, -24) ],
      [ angle |-> Fin(1, 9385218, -22), cos |-> Fin(-1, 10376466, -24), sin |-> Fin(1, 13183472, -24) ],
      [ angle |-> Fin(1, 9385219, -22), cos |-> Fin(-1, 10376470, -24), sin |-> Fin(1, 13183469, -24) ],
      [ angle |-> Fin(1, 9385220, -22), cos |-> Fin(-1, 10376473, -24), sin |-> Fin(1, 13183467, -24) ],
      [ angle |-> Fin(1, 9385221, -22), cos |-> Fin(-1, 10376476, -24), sin |-> Fin(1, 13183464, -24) ],
      [ angle |-> Fin(1, 9385223, -22), cos |-> Fin(-1, 10376482, -24), sin |-> Fin(1, 13183459, -24) ],
      [ angle |-> Fin(1, 9401921, -22), cos |-> Fin(-1, 10428885, -24), sin |-> Fin(1, 13142045, -24) ],
      [ angle |-> Fin(1, 9401922, -22), cos |-> Fin(-1, 10428888, -24), sin |-> Fin(1, 13142042, -24) ],
      [ angle |-> Fin(1, 9401923, -22), cos |-> Fin(-1, 10428891, -24), sin |-> Fin(1, 13142040, -24) ],
      [ angle |-> Fin(1, 9541110, -22), cos |-> Fin(-1, 10859185, -24), sin |-> Fin(1, 12788788, -24) ],
      [ angle |-> Fin(1, 9541111, -22), cos |-> Fin(-1, 10859188, -24), sin |-> Fin(1, 12788785, -24) ],
      [ angle |-> Fin(1, 9594934, -22), cos |-> Fin(-1, 11022400, -24), sin |-> Fin(1, 12648386, -24) ],
      [ angle |-> Fin(1, 9594935, -22), cos |-> Fin(-1, 11022403, -24), sin |-> Fin(1, 12648384, -24) ],
      [ angle |-> Fin(1, 9594936, -22), cos |-> Fin(-1, 11022406, -24), sin |-> Fin(1, 12648381, -24) ],
      [ angle |-> Fin(1, 9611636, -22), cos |-> Fin(-1, 11072679, -24), sin |-> Fin(1, 12604394, -24) ],
      [ angle |-> Fin(1, 9750825, -22), cos |-> Fin(-1, 11484786, -24), sin |-> Fin(1, 12230072, -24) ],
      [ angle |-> Fin(1, 9750826, -22), cos |-> Fin(-1, 11484789, -24), sin |-> Fin(1, 12230070, -24) ],
      [ angle |-> Fin(1, 9750827, -22), cos |-> Fin(-1, 11484792, -24), sin |-> Fin(1, 12230067, -24) ],
      [ angle |-> Fin(1, 9804647, -22), cos |-> Fin(-1, 11640774, -24), sin |-> Fin(1, 12081695, -24) ],
      [ angle |-> Fin(1, 9804649, -22), cos |-> Fin(-1, 11640780, -24), sin |-> Fin(1, 12081689, -24) ],
      [ angle |-> Fin(1, 9804650, -22), cos |-> Fin(-1, 11640783, -24), sin |-> Fin(1, 12081687, -24) ],
      [ angle |-> Fin(1, 9804651, -22), cos |-> Fin(-1, 11640786, -24), sin |-> Fin(1, 12081684, -24) ],
      [ angle |-> Fin(1, 9804652, -22), cos |-> Fin(-1, 11640789, -24), sin |-> Fin(1, 12081681, -24) ],
      [ angle |-> Fin(1, 9960539, -22), cos |-> Fin(-1, 12081678, -24), sin |-> Fin(1, 11640791, -24) ],
      [ angle |-> Fin(1, 9960540, -22), cos |-> Fin(-1, 12081681, -24), sin |-> Fin(1, 11640789, -24) ],
      [ angle |-> Fin(1, 9960541, -22), cos |-> Fin(-1, 12081684, -24), sin |-> Fin(1, 11640786, -24) ],
      [ angle |-> Fin(1, 9960542, -22), cos |-> Fin(-1, 12081687, -24), sin |-> Fin(1, 11640783, -24) ],
      [ angle |-> Fin(1, 9960543, -22), cos |-> Fin(-1, 12081689, -24), sin |-> Fin(1, 11640780, -24) ],
      [ angle |-> Fin(1, 10014363, -22), cos |-> Fin(-1, 12230062, -24), sin |-> Fin(1, 11484797, -24) ],
      [ angle |-> Fin(1, 10014367, -22), cos |-> Fin(-1, 12230073, -24), sin |-> Fin(1, 11484786, -24) ],
      [ angle |-> Fin(1, 10153556, -22), cos |-> Fin(-1, 12604394, -24), sin |-> Fin(1, 11072679, -24) ],
      [ angle |-> Fin(1, 10170255, -22), cos |-> Fin(-1, 12648379, -24), sin |-> Fin(1, 11022409, -24) ],
      [ angle |-> Fin(1, 10170256, -22), cos |-> Fin(-1, 12648381, -24), sin |-> Fin(1, 11022406, -24) ],
      [ angle |-> Fin(1, 10170257, -22), cos |-> Fin(-1, 12648384, -24), sin |-> Fin(1, 11022403, -24) ],
      [ angle |-> Fin(1, 10170258, -22), cos |-> Fin(-1, 12648386, -24), sin |-> Fin(1, 11022400, -24) ],
      [ angle |-> Fin(1, 10224079, -22), cos |-> Fin(-1, 12788780, -24), sin |-> Fin(1, 10859194, -24) ],
      [ angle |-> Fin(1, 10363271, -22), cos |-> Fin(-1, 13142045, -24), sin |-> Fin(1, 10428884, -24) ],
      [ angle |-> Fin(1, 10379971, -22), cos |-> Fin(-1, 13183464, -24), sin |-> Fin(1, 10376476, -24) ],
      [ angle |-> Fin(1, 10379972, -22), cos |-> Fin(-1, 13183467, -24), sin |-> Fin(1, 10376473, -24) ],
      [ angle |-> Fin(1, 10379973, -22), cos |-> Fin(-1, 13183469, -24), sin |-> Fin(1, 10376469, -24) ],
      [ angle |-> Fin(1, 10379974, -22), cos |-> Fin(-1, 13183472, -24), sin |-> Fin(1, 10376466, -24) ],
      [ angle |-> Fin(1, 10572985, -22), cos |-> Fin(-1, 13646845, -24), sin |-> Fin(1, 9759026, -24) ],
      [ angle |-> Fin(1, 10572986, -22), cos |-> Fin(-1, 13646847, -24), sin |-> Fin(1, 9759023, -24) ],
      [ angle |-> Fin(1, 10589687, -22), cos |-> Fin(-1, 13685598, -24), sin |-> Fin(1, 9704607, -24) ],
      [ angle |-> Fin(1, 10589688, -22), cos |-> Fin(-1, 13685600, -24), sin |-> Fin(1, 9704603, -24) ],
      [ angle |-> Fin(1, 10589689, -22), cos |-> Fin(-1, 13685602, -24), sin |-> Fin(1, 9704600, -24) ],
      [ angle |-> Fin(1, 10782701, -22), cos |-> Fin(-1, 14117540, -24), sin |-> Fin(1, 9064770, -24) ],
      [ angle |-> Fin(1, 10799403, -22), cos |-> Fin(-1, 14153524, -24), sin |-> Fin(1, 9008481, -24) ],
      [ angle |-> Fin(1, 10799404, -22), cos |-> Fin(-1, 14153526, -24), sin |-> Fin(1, 9008477, -24) ],
      [ angle |-> Fin(1, 10992416, -22), cos |-> Fin(-1, 14552946, -24), sin |-> Fin(1, 16695717, -25) ],
      [ angle |-> Fin(1, 10992417, -22), cos |-> Fin(-1, 14552948, -24), sin |-> Fin(1, 16695710, -25) ],
      [ angle |-> Fin(1, 11202131, -22), cos |-> Fin(-1, 14951977, -24), sin |-> Fin(1, 15220165, -25) ],
      [ angle |-> Fin(1, 11411846, -22), cos |-> Fin(-1, 15313636, -24), sin |-> Fin(1, 13706571, -25) ],
      [ angle |-> Fin(1, 12128220, -22), cos |-> Fin(-1, 16255654, -24), sin |-> Fin(1, 16602978, -26) ],
      [ angle |-> Fin(1, 12337935, -22), cos |-> Fin(-1, 16442790, -24), sin |-> Fin(1, 13332455, -26) ],
      [ angle |-> Fin(1, 12547650, -22), cos |-> Fin(-1, 16588827, -24), sin |-> Fin(1, 10028608, -26) ],
      [ angle |-> Fin(1, 12757362, -22), cos |-> Fin(-1, 16693399, -24), sin |-> Fin(1, 13399485, -27) ],
      [ angle |-> Fin(1, 12757363, -22), cos |-> Fin(-1, 16693399, -24), sin |-> Fin(1, 13399454, -27) ],
      [ angle |-> Fin(1, 12757365, -22), cos |-> Fin(-1, 16693400, -24), sin |-> Fin(1, 13399390, -27) ],
      [ angle |-> Fin(1, 12967077, -22), cos |-> Fin(-1, 16756248, -24), sin |-> Fin(1, 13416337, -28) ],
      [ angle |-> Fin(1, 12967078, -22), cos |-> Fin(-1, 16756249, -24), sin |-> Fin(1, 13416273, -28) ],
      [ angle |-> Fin(1, 12967079, -22), cos |-> Fin(-1, 16756249, -24), sin |-> Fin(1, 13416209, -28) ],
      [ angle |-> Fin(1, 12967080, -22), cos |-> Fin(-1, 16756249, -24), sin |-> Fin(1, 13416145, -28) ],
      [ angle |-> Fin(1, 12967081, -22), cos |-> Fin(-1, 16756249, -24), sin |-> Fin(1, 13416081, -28) ],
      [ angle |-> Fin(1, 13160095, -22), cos |-> Fin(-1, 16777083, -24), sin |-> Fin(1, 8550190, -31) ],
      [ angle |-> Fin(1, 13176792, -22), cos |-> Fin(-1, 8388608, -23), sin |-> Fin(1, 11044954, -44) ],
      [ angle |-> Fin(1, 13176793, -22), cos |-> Fin(-1, 8388608, -23), sin |-> Fin(1, 13701300, -45) ],
      [ angle |-> Fin(1, 13176794, -22), cos |-> Fin(-1, 8388608, -23), sin |-> Fin(1, 10625385, -46) ],
      [ angle |-> Fin(1, 13176795, -22), cos |-> Fin(-1, 8388608, -23), sin |-> Fin(-1, 12303662, -47) ],
      [ angle |-> Fin(1, 13176796, -22), cos |-> Fin(-1, 8388608, -23), sin |-> Fin(-1, 11464524, -45) ],
      [ angle |-> Fin(1, 13176797, -22), cos |-> Fin(-1, 8388608, -23), sin |-> Fin(-1, 9926566, -44) ],
      [ angle |-> Fin(1, 13369807, -22), cos |-> Fin(-1, 16759455, -24), sin |-> Fin(-1, 12348432, -28) ],
      [ angle |-> Fin(1, 13369809, -22), cos |-> Fin(-1, 16759455, -24), sin |-> Fin(-1, 12348560, -28) ],
      [ angle |-> Fin(1, 13369811, -22), cos |-> Fin(-1, 16759454, -24), sin |-> Fin(-1, 12348688, -28) ],
      [ angle |-> Fin(1, 13386508, -22), cos |-> Fin(-1, 16756249, -24), sin |-> Fin(-1, 13416064, -28) ],
      [ angle |-> Fin(1, 13386509, -22), cos |-> Fin(-1, 16756249, -24), sin |-> Fin(-1, 13416128, -28) ],
      [ angle |-> Fin(1, 13386510, -22), cos |-> Fin(-1, 16756249, -24), sin |-> Fin(-1, 13416192, -28) ],
      [ angle |-> Fin(1, 13386511, -22), cos |-> Fin(-1, 16756249, -24), sin |-> Fin(-1, 13416256, -28) ],
      [ angle |-> Fin(1, 13386513, -22), cos |-> Fin(-1, 16756248, -24), sin |-> Fin(-1, 13416384, -28) ],
      [ angle |-> Fin(1, 13579523, -22), cos |-> Fin(-1, 16699937, -24), sin |-> Fin(-1, 12867515, -27) ],
      [ angle |-> Fin(1, 13579525, -22), cos |-> Fin(-1, 16699936, -24), sin |-> Fin(-1, 12867578, -27) ],
      [ angle |-> Fin(1, 13579527, -22), cos |-> Fin(-1, 16699936, -24), sin |-> Fin(-1, 12867642, -27) ],
      [ angle |-> Fin(1, 13596224, -22), cos |-> Fin(-1, 16693400, -24), sin |-> Fin(-1, 13399381, -27) ],
      [ angle |-> Fin(1, 13596225, -22), cos |-> Fin(-1, 16693400, -24), sin |-> Fin(-1, 13399413, -27) ],
      [ angle |-> Fin(1, 13596226, -22), cos |-> Fin(-1, 16693399, -24), sin |-> Fin(-1, 13399445, -27) ],
      [ angle |-> Fin(1, 13596229, -22), cos |-> Fin(-1, 16693398, -24), sin |-> Fin(-1, 13399541, -27) ],
      [ angle |-> Fin(1, 13789239, -22), cos |-> Fin(-1, 16598678, -24), sin |-> Fin(-1, 9764325, -26) ],
      [ angle |-> Fin(1, 13805940, -22), cos |-> Fin(-1, 16588826, -24), sin |-> Fin(-1, 10028620, -26) ],
      [ angle |-> Fin(1, 13998951, -22), cos |-> Fin(-1, 16455933, -24), sin |-> Fin(-1, 13070425, -26) ],
      [ angle |-> Fin(1, 13998953, -22), cos |-> Fin(-1, 16455931, -24), sin |-> Fin(-1, 13070456, -26) ],
      [ angle |-> Fin(1, 13998955, -22), cos |-> Fin(-1, 16455930, -24), sin |-> Fin(-1, 13070488, -26) ],
      [ angle |-> Fin(1, 14015655, -22), cos |-> Fin(-1, 16442789, -24), sin |-> Fin(-1, 13332466, -26) ],
      [ angle |-> Fin(1, 14208667, -22), cos |-> Fin(-1, 16272054, -24), sin |-> Fin(-1, 16343918, -26) ],
      [ angle |-> Fin(1, 14208669, -22), cos |-> Fin(-1, 16272052, -24), sin |-> Fin(-1, 16343949, -26) ],
      [ angle |-> Fin(1, 14208671, -22), cos |-> Fin(-1, 16272050, -24), sin |-> Fin(-1, 16343980, -26) ],
      [ angle |-> Fin(1, 14225370, -22), cos |-> Fin(-1, 16255654, -24), sin |-> Fin(-1, 16602989, -26) ],
      [ angle |-> Fin(1, 14418383, -22), cos |-> Fin(-1, 16047504, -24), sin |-> Fin(-1, 9788280, -25) ],
      [ angle |-> Fin(1, 15554186, -22), cos |-> Fin(-1, 14153525, -24), sin |-> Fin(-1, 9008480, -24) ],
      [ angle |-> Fin(1, 15554187, -22), cos |-> Fin(-1, 14153523, -24), sin |-> Fin(-1, 9008483, -24) ],
      [ angle |-> Fin(1, 15554189, -22), cos |-> Fin(-1, 14153518, -24), sin |-> Fin(-1, 9008490, -24) ],
      [ angle |-> Fin(1, 15763901, -22), cos |-> Fin(-1, 13685601, -24), sin |-> Fin(-1, 9704602, -24) ],
      [ angle |-> Fin(1, 15763902, -22), cos |-> Fin(-1, 13685598, -24), sin |-> Fin(-1, 9704606, -24) ],
      [ angle |-> Fin(1, 15763903, -22), cos |-> Fin(-1, 13685596, -24), sin |-> Fin(-1, 9704609, -24) ],
      [ angle |-> Fin(1, 15763905, -22), cos |-> Fin(-1, 13685591, -24), sin |-> Fin(-1, 9704615, -24) ],
      [ angle |-> Fin(1, 15973616, -22), cos |-> Fin(-1, 13183470, -24), sin |-> Fin(-1, 10376469, -24) ],
      [ angle |-> Fin(1, 15973617, -22), cos |-> Fin(-1, 13183467, -24), sin |-> Fin(-1, 10376472, -24) ],
      [ angle |-> Fin(1, 15973618, -22), cos |-> Fin(-1, 13183465, -24), sin |-> Fin(-1, 10376475, -24) ],
      [ angle |-> Fin(1, 15973619, -22), cos |-> Fin(-1, 13183462, -24), sin |-> Fin(-1, 10376478, -24) ],
      [ angle |-> Fin(1, 15973621, -22), cos |-> Fin(-1, 13183457, -24), sin |-> Fin(-1, 10376484, -24) ],
      [ angle |-> Fin(1, 16183332, -22), cos |-> Fin(-1, 12648385, -24), sin |-> Fin(-1, 11022402, -24) ],
      [ angle |-> Fin(1, 16183333, -22), cos |-> Fin(-1, 12648382, -24), sin |-> Fin(-1, 11022405, -24) ],
      [ angle |-> Fin(1, 16183334, -22), cos |-> Fin(-1, 12648379, -24), sin |-> Fin(-1, 11022408, -24) ],
      [ angle |-> Fin(1, 16393045, -22), cos |-> Fin(-1, 12081693, -24), sin |-> Fin(-1, 11640776, -24) ],
      [ angle |-> Fin(1, 16393047, -22), cos |-> Fin(-1, 12081687, -24), sin |-> Fin(-1, 11640782, -24) ],
      [ angle |-> Fin(1, 16393048, -22), cos |-> Fin(-1, 12081685, -24), sin |-> Fin(-1, 11640785, -24) ],
      [ angle |-> Fin(1, 16393049, -22), cos |-> Fin(-1, 12081682, -24), sin |-> Fin(-1, 11640788, -24) ],
      [ angle |-> Fin(1, 16393050, -22), cos |-> Fin(-1, 12081679, -24), sin |-> Fin(-1, 11640791, -24) ],
      [ angle |-> Fin(1, 16602761, -22), cos |-> Fin(-1, 11484795, -24), sin |-> Fin(-1, 12230063, -24) ],
      [ angle |-> Fin(1, 16602765, -22), cos |-> Fin(-1, 11484784, -24), sin |-> Fin(-1, 12230074, -24) ],
      [ angle |-> Fin(1, 16741954, -22), cos |-> Fin(-1, 11072677, -24), sin |-> Fin(-1, 12604396, -24) ],
      [ angle |-> Fin(1, 8406238, -21), cos |-> Fin(-1, 10859195, -24), sin |-> Fin(-1, 12788779, -24) ],
      [ angle |-> Fin(1, 8475834, -21), cos |-> Fin(-1, 10428885, -24), sin |-> Fin(-1, 13142044, -24) ],
      [ angle |-> Fin(1, 8580691, -21), cos |-> Fin(-1, 9759027, -24), sin |-> Fin(-1, 13646844, -24) ],
      [ angle |-> Fin(1, 8580692, -21), cos |-> Fin(-1, 9759021, -24), sin |-> Fin(-1, 13646849, -24) ],
      [ angle |-> Fin(1, 8685549, -21), cos |-> Fin(-1, 9064771, -24), sin |-> Fin(-1, 14117539, -24) ],
      [ angle |-> Fin(1, 8790407, -21), cos |-> Fin(-1, 16695713, -25), sin |-> Fin(-1, 14552947, -24) ],
      [ angle |-> Fin(1, 8895264, -21), cos |-> Fin(-1, 15220168, -25), sin |-> Fin(-1, 14951977, -24) ],
      [ angle |-> Fin(1, 9000122, -21), cos |-> Fin(-1, 13706566, -25), sin |-> Fin(-1, 15313637, -24) ],
      [ angle |-> Fin(1, 9874246, -21), cos |-> Fin(-1, 8550352, -31), sin |-> Fin(-1, 16777083, -24) ],
      [ angle |-> Fin(1, 9979102, -21), cos |-> Fin(1, 12348412, -28), sin |-> Fin(-1, 16759455, -24) ],
      [ angle |-> Fin(1, 9979103, -21), cos |-> Fin(1, 12348540, -28), sin |-> Fin(-1, 16759455, -24) ],
      [ angle |-> Fin(1, 9979104, -21), cos |-> Fin(1, 12348668, -28), sin |-> Fin(-1, 16759454, -24) ],
      [ angle |-> Fin(1, 10083960, -21), cos |-> Fin(1, 12867504, -27), sin |-> Fin(-1, 16699937, -24) ],
      [ angle |-> Fin(1, 10083961, -21), cos |-> Fin(1, 12867568, -27), sin |-> Fin(-1, 16699936, -24) ],
      [ angle |-> Fin(1, 10083962, -21), cos |-> Fin(1, 12867632, -27), sin |-> Fin(-1, 16699936, -24) ],
      [ angle |-> Fin(1, 10188818, -21), cos |-> Fin(1, 9764320, -26), sin |-> Fin(-1, 16598678, -24) ],
      [ angle |-> Fin(1, 10293674, -21), cos |-> Fin(1, 13070420, -26), sin |-> Fin(-1, 16455933, -24) ],
      [ angle |-> Fin(1, 10293675, -21), cos |-> Fin(1, 13070451, -26), sin |-> Fin(-1, 16455932, -24) ],
      [ angle |-> Fin(1, 10293676, -21), cos |-> Fin(1, 13070483, -26), sin |-> Fin(-1, 16455930, -24) ],
      [ angle |-> Fin(1, 10398532, -21), cos |-> Fin(1, 16343913, -26), sin |-> Fin(-1, 16272055, -24) ],
      [ angle |-> Fin(1, 10398533, -21), cos |-> Fin(1, 16343944, -26), sin |-> Fin(-1, 16272053, -24) ],
      [ angle |-> Fin(1, 10398534, -21), cos |-> Fin(1, 16343975, -26), sin |-> Fin(-1, 16272051, -24) ],
      [ angle |-> Fin(1, 10503390, -21), cos |-> Fin(1, 9788277, -25), sin |-> Fin(-1, 16047504, -24) ],
      [ angle |-> Fin(1, 16261277, -21), cos |-> Fin(1, 13399484, -27), sin |-> Fin(1, 16693399, -24) ],
      [ angle |-> Fin(1, 16261279, -21), cos |-> Fin(1, 13399357, -27), sin |-> Fin(1, 16693401, -24) ],
      [ angle |-> Fin(1, 16366137, -21), cos |-> Fin(1, 13416014, -28), sin |-> Fin(1, 16756249, -24) ],
      [ angle |-> Fin(1, 16470993, -21), cos |-> Fin(1, 9786246, -46), sin |-> Fin(1, 8388608, -23) ],
      [ angle |-> Fin(1, 16470995, -21), cos |-> Fin(-1, 14330655, -44), sin |-> Fin(1, 8388608, -23) ],
      [ angle |-> Fin(1, 16575851, -21), cos |-> Fin(-1, 13416195, -28), sin |-> Fin(1, 16756249, -24) ],
      [ angle |-> Fin(1, 16575853, -21), cos |-> Fin(-1, 13416451, -28), sin |-> Fin(1, 16756248, -24) ],
      [ angle |-> Fin(1, 16680709, -21), cos |-> Fin(-1, 13399447, -27), sin |-> Fin(1, 16693399, -24) ],
      [ angle |-> Fin(1, 8829845, -20), cos |-> Fin(-1, 9008487, -24), sin |-> Fin(1, 14153520, -24) ],
      [ angle |-> Fin(1, 8882274, -20), cos |-> Fin(-1, 9704612, -24), sin |-> Fin(1, 13685594, -24) ],
      [ angle |-> Fin(1, 8934702, -20), cos |-> Fin(-1, 10376469, -24), sin |-> Fin(1, 13183470, -24) ],
      [ angle |-> Fin(1, 8987131, -20), cos |-> Fin(-1, 11022402, -24), sin |-> Fin(1, 12648384, -24) ],
      [ angle |-> Fin(1, 9039560, -20), cos |-> Fin(-1, 11640785, -24), sin |-> Fin(1, 12081685, -24) ],
      [ angle |-> Fin(1, 9091988, -20), cos |-> Fin(-1, 12230061, -24), sin |-> Fin(1, 11484798, -24) ],
      [ angle |-> Fin(1, 9144417, -20), cos |-> Fin(-1, 12788779, -24), sin |-> Fin(1, 10859194, -24) ],
      [ angle |-> Fin(1, 9777738, -20), cos |-> Fin(-1, 16693399, -24), sin |-> Fin(1, 13399462, -27) ],
      [ angle |-> Fin(1, 9777739, -20), cos |-> Fin(-1, 16693401, -24), sin |-> Fin(1, 13399335, -27) ],
      [ angle |-> Fin(1, 9830168, -20), cos |-> Fin(-1, 16756250, -24), sin |-> Fin(1, 13415970, -28) ],
      [ angle |-> Fin(1, 9878421, -20), cos |-> Fin(-1, 16777083, -24), sin |-> Fin(1, 8550326, -31) ],
      [ angle |-> Fin(1, 9882596, -20), cos |-> Fin(-1, 8388608, -23), sin |-> Fin(-1, 13426222, -49) ],
      [ angle |-> Fin(1, 9882597, -20), cos |-> Fin(-1, 8388608, -23), sin |-> Fin(-1, 8598393, -43) ],
      [ angle |-> Fin(1, 9930850, -20), cos |-> Fin(-1, 16759454, -24), sin |-> Fin(-1, 12348671, -28) ],
      [ angle |-> Fin(1, 9935025, -20), cos |-> Fin(-1, 16756249, -24), sin |-> Fin(-1, 13416239, -28) ],
      [ angle |-> Fin(1, 9935026, -20), cos |-> Fin(-1, 16756248, -24), sin |-> Fin(-1, 13416494, -28) ],
      [ angle |-> Fin(1, 9983278, -20), cos |-> Fin(-1, 16699937, -24), sin |-> Fin(-1, 12867506, -27) ],
      [ angle |-> Fin(1, 9987454, -20), cos |-> Fin(-1, 16693399, -24), sin |-> Fin(-1, 13399469, -27) ],
      [ angle |-> Fin(1, 10035707, -20), cos |-> Fin(-1, 16598678, -24), sin |-> Fin(-1, 9764321, -26) ],
      [ angle |-> Fin(1, 10088136, -20), cos |-> Fin(-1, 16455930, -24), sin |-> Fin(-1, 13070483, -26) ],
      [ angle |-> Fin(1, 10140564, -20), cos |-> Fin(-1, 16272054, -24), sin |-> Fin(-1, 16343914, -26) ],
      [ angle |-> Fin(1, 10192993, -20), cos |-> Fin(-1, 16047504, -24), sin |-> Fin(-1, 9788278, -25) ],
      [ angle |-> Fin(1, 10476945, -20), cos |-> Fin(-1, 14153515, -24), sin |-> Fin(-1, 9008496, -24) ],
      [ angle |-> Fin(1, 10529374, -20), cos |-> Fin(-1, 13685587, -24), sin |-> Fin(-1, 9704621, -24) ],
      [ angle |-> Fin(1, 10581802, -20), cos |-> Fin(-1, 13183463, -24), sin |-> Fin(-1, 10376477, -24) ],
      [ angle |-> Fin(1, 10634231, -20), cos |-> Fin(-1, 12648377, -24), sin |-> Fin(-1, 11022410, -24) ],
      [ angle |-> Fin(1, 10686660, -20), cos |-> Fin(-1, 12081677, -24), sin |-> Fin(-1, 11640793, -24) ],
      [ angle |-> Fin(1, 10739088, -20), cos |-> Fin(-1, 11484790, -24), sin |-> Fin(-1, 12230068, -24) ],
      [ angle |-> Fin(1, 10791517, -20), cos |-> Fin(-1, 10859186, -24), sin |-> Fin(-1, 12788786, -24) ],
      [ angle |-> Fin(1, 11525521, -20), cos |-> Fin(-1, 8548952, -31), sin |-> Fin(-1, 16777083, -24) ],
      [ angle |-> Fin(1, 11577950, -20), cos |-> Fin(1, 12348842, -28), sin |-> Fin(-1, 16759454, -24) ],
      [ angle |-> Fin(1, 11630378, -20), cos |-> Fin(1, 12867592, -27), sin |-> Fin(-1, 16699936, -24) ],
      [ angle |-> Fin(1, 11682807, -20), cos |-> Fin(1, 9764364, -26), sin |-> Fin(-1, 16598676, -24) ],
      [ angle |-> Fin(1, 11735236, -20), cos |-> Fin(1, 13070525, -26), sin |-> Fin(-1, 16455928, -24) ],
      [ angle |-> Fin(1, 11787664, -20), cos |-> Fin(1, 16343956, -26), sin |-> Fin(-1, 16272052, -24) ],
      [ angle |-> Fin(1, 11840093, -20), cos |-> Fin(1, 9788298, -25), sin |-> Fin(-1, 16047501, -24) ] }

\* the table as a function of the angle
MoveTrig == [ a \in { row.angle : row \in MoveAngles } |->
                CHOOSE row \in MoveAngles : row.angle = a ]

\* the row of the angle a movement key steps along
MoveAngle(a) == MoveTrig[a]

(***************************************************************************)
(* render, lines 113-117: the single wrap of the stored heading.           *)
(***************************************************************************)
normalize_heading(rot) ==
    IF Lt(rot, Neg(PI)) THEN Add(TwoPI, rot)
    ELSE IF Lt(PI, rot) THEN Sub(rot, TwoPI)
    ELSE rot

(***************************************************************************)
(* render as the event loop sees it: the heading it writes back, and the   *)
(* pose and wall list the frame's rays are cast from (the columns of the   *)
(* frame are a function of these: see ScanSegment and Project below).      *)
(***************************************************************************)
\* a render that also turns the viewer
render_turns_viewer(pos, rot, segs) ==
    [ rotation |-> Add(normalize_heading(rot), RotateStep),
      position |-> pos,
      segments |-> segs ]
render(pos, rot, segs) ==
    [ rotation |-> normalize_heading(rot),
      position |-> pos,
      segments |-> segs ]

(***************************************************************************)
(* The event loop of main (lines 185-245).  One action per event kind; an  *)
(* action is the whole match arm, the render call included.                *)
(***************************************************************************)
MaxEvents == 4

\* columns a Moved event may report (u16); 800 needs a terminal that wide
MouseColumns == { 0, 100, 800 }

NoFrame == [ position |-> << Zero(1), Zero(1) >>, rotation |-> Zero(1), drawn |-> FALSE ]

NoCall == [ made |-> FALSE,
            inPosition |-> << Zero(1), Zero(1) >>, inRotation |-> Zero(1),
            outPosition |-> << Zero(1), Zero(1) >>, outRotation |-> Zero(1) ]

HarnessIdle ==
    /\ mode = "loop"
    /\ pc = "idle"
    /\ input = << >>
    /\ acc = << >>
    /\ output = << >>

LoopInit ==
    /\ segments = Walls
    /\ position = << Zero(1), Zero(1) >>
    /\ rotation = Div(Mul(I(3), PI), I(4))
    /\ last_mouse_position = None
    /\ running = TRUE
    /\ lastEvent = "none"
    /\ frames = 0
    /\ frame = NoFrame
    /\ call = NoCall
    /\ events = 0

Init == LoopInit /\ HarnessIdle

CanRead == running /\ events < MaxEvents

\* the history of one render call made with (pos, rot), returning r
Rendered(pos, rot, r) ==
    /\ frames' = 1
    /\ frame' = [ position |-> r.position, rotation |-> r.rotation, drawn |-> TRUE ]
    /\ call' = [ made |-> TRUE,
                 inPosition |-> pos, inRotation |-> rot,
                 outPosition |-> r.position, outRotation |-> r.rotation ]

\* Event::Mouse, MouseEventKind::Moved (lines 202-208): render, then turn
MouseMoved(column) ==
    /\ CanRead
    /\ LET r == render(position, rotation, segments)
       IN /\ Rendered(position, rotation, r)
          /\ position' = r.position
          /\ segments' = r.segments
          /\ rotation' = IF is_some(last_mouse_position)
                         THEN Add(r.rotation,
                                  Mul(I(column - unwrap(last_mouse_position)), MouseStep))
                         ELSE r.rotation
    /\ last_mouse_position' = Some(column)
    /\ lastEvent' = "mouse"
    /\ events' = events + 1
    /\ UNCHANGED << running, harnessVars >>

\* a movement key (lines 213-232): step forward (+=) or back (-=) by SPEED along
\* the angle `along`, then render.  The locals are bound by \E over a one-element
\* set, so that each is computed once.
Move(key, forward, along) ==
    /\ CanRead
    /\ \E angle \in { MoveAngle(along) } :
       \E pos \in { IF forward
                    THEN << Add(position[1], Mul(Cos(angle), SPEED)),
                            Add(position[2], Mul(Sin(angle), SPEED)) >>
                    ELSE << Sub(position[1], Mul(Cos(angle), SPEED)),
                            Sub(position[2], Mul(Sin(angle), SPEED)) >> } :
       \E r \in { render(pos, rotation, segments) } :
          /\ Rendered(pos, rotation, r)
          /\ position' = r.position
          /\ rotation' = r.rotation
          /\ segments' = r.segments
    /\ lastEvent' = key
    /\ events' = events + 1
    /\ UNCHANGED << last_mouse_position, running, harnessVars >>

KeyW == Move("w", TRUE, Sub(rotation, QuarterTurn))

KeyS == Move("s", FALSE, Sub(rotation, QuarterTurn))

KeyA == Move("a", TRUE, Add(rotation, QuarterTurn))

KeyD == Move("d", FALSE, Add(rotation, QuarterTurn))

\* a rotation key (lines 233-240): turn by `delta`, then render
Rotate(key, delta) ==
    /\ CanRead
    /\ LET r == render(position, Add(rotation, delta), segments)
       IN /\ Rendered(position, Add(rotation, delta), r)
          /\ position' = r.position
          /\ rotation' = r.rotation
          /\ segments' = r.segments
    /\ lastEvent' = key
    /\ events' = events + 1
    /\ UNCHANGED << last_mouse_position, running, harnessVars >>

KeyH == Rotate("h", RotateStep)

KeyL == Rotate("l", Neg(RotateStep))

\* 'q' (line 212): break
KeyQ ==
    /\ CanRead
    /\ running' = FALSE
    /\ lastEvent' = "q"
    /\ frames' = 0
    /\ events' = events + 1
    /\ UNCHANGED << position, rotation, last_mouse_position, segments,
                    frame, call, harnessVars >>

\* any other event (lines 209, 241, 243): nothing
OtherEvent ==
    /\ CanRead
    /\ lastEvent' = "other"
    /\ frames' = 0
    /\ events' = events + 1
    /\ UNCHANGED << position, rotation, last_mouse_position, segments, running,
                    frame, call, harnessVars >>

Next ==
    \/ \E column \in MouseColumns : MouseMoved(column)
    \/ KeyW
    \/ KeyS
    \/ KeyA
    \/ KeyD
    \/ KeyH
    \/ KeyL
    \/ KeyQ
    \/ OtherEvent

Spec == Init /\ [][Next]_vars

(***************************************************************************)
(* One column of render (lines 132-162), cast from a drawn viewer position *)
(* and ray angle over the wall list of main, one wall per step.            *)
(***************************************************************************)
MaxRows == 6

\* ray angles: the f32 nearest to the directions of the 3-4-5 triangle and of the
\* x axis, each with its f32 tan, cos and sin
Angles ==
    { [ angle |-> Fin(1, 0, 0),          \* atan2(0, 5) = 0.0
        tan |-> Fin(1, 0, 0), cos |-> Fin(1, 8388608, -23),
        sin |-> Fin(1, 0, 0) ],
      [ angle |-> Fin(1, 13176795, -22),          \* atan2(0, -5) = 3.1415927410125732
        tan |-> Fin(1, 12303662, -47), cos |-> Fin(-1, 8388608, -23),
        sin |-> Fin(-1, 12303662, -47) ],
      [ angle |-> Fin(1, 15557432, -24),          \* atan2(4, 3) = 0.9272952079772949
        tan |-> Fin(1, 11184810, -23), cos |-> Fin(1, 10066330, -24),
        sin |-> Fin(1, 13421773, -24) ],
      [ angle |-> Fin(1, 10796157, -24),          \* atan2(3, 4) = 0.6435011029243469
        tan |-> Fin(1, 12582912, -24), cos |-> Fin(1, 13421773, -24),
        sin |-> Fin(1, 10066330, -24) ],
      [ angle |-> Fin(1, 9287437, -22),          \* atan2(4, -3) = 2.2142975330352783
        tan |-> Fin(-1, 11184808, -23), cos |-> Fin(-1, 10066331, -24),
        sin |-> Fin(1, 13421772, -24) ],
      [ angle |-> Fin(1, 10477755, -22),          \* atan2(3, -4) = 2.498091459274292
        tan |-> Fin(-1, 12582914, -24), cos |-> Fin(-1, 13421772, -24),
        sin |-> Fin(1, 10066331, -24) ],
      [ angle |-> Fin(-1, 15557432, -24),          \* atan2(-4, 3) = -0.9272952079772949
        tan |-> Fin(-1, 11184810, -23), cos |-> Fin(1, 10066330, -24),
        sin |-> Fin(-1, 13421773, -24) ],
      [ angle |-> Fin(-1, 10796157, -24),          \* atan2(-3, 4) = -0.6435011029243469
        tan |-> Fin(-1, 12582912, -24), cos |-> Fin(1, 13421773, -24),
        sin |-> Fin(-1, 10066330, -24) ],
      [ angle |-> Fin(-1, 9287437, -22),          \* atan2(-4, -3) = -2.2142975330352783
        tan |-> Fin(1, 11184808, -23), cos |-> Fin(-1, 10066331, -24),
        sin |-> Fin(-1, 13421772, -24) ],
      [ angle |-> Fin(-1, 10477755, -22),          \* atan2(-3, -4) = -2.498091459274292
        tan |-> Fin(1, 12582914, -24), cos |-> Fin(-1, 13421772, -24),
        sin |-> Fin(-1, 10066331, -24) ] }

\* viewer positions: the start, inside the box, inside the triangle, outside,
\* facing a corner shared by two walls, a run along y = 3 facing the wall
\* x = -2 from 4 to 15 units away, and (8.5, -0.5), from where the nearest wall
\* along atan2(4, -3) is at 3.5937488 with x * x and at 3.5937486 with libm's powf
Viewers ==
    { Pt(0, 0), Pt(0, 3), Pt(3, 3), Pt(5, 3), Pt(10, 3), Pt(-4, -3), Pt(-3, 4), Pt(-6, -2),
      Pt(-6, 3), Pt(-7, 3), Pt(-9, 3), Pt(-11, 3), Pt(-12, 3), Pt(-14, 3),
      Pt(-16, 3), Pt(-17, 3), << Lit(17, 2), Lit(-1, 2) >> }

\* a loop body that lets a later wall at the same distance replace the earlier one
scan_replacing_on_tie(local, segment, new_distance) ==
    IF \/ is_none(local.distance)
       \/ Le(new_distance, unwrap(local.distance))
    THEN [ distance |-> Some(new_distance), colour |-> segment.colour ]
    ELSE local
\* the body of `if let Some(point)` in the loop over the walls (lines 138-141)
scan_segment(local, segment, new_distance) ==
    IF \/ is_none(local.distance)
       \/ Lt(new_distance, unwrap(local.distance))
    THEN [ distance |-> Some(new_distance), colour |-> segment.colour ]
    ELSE local

ColumnInit ==
    /\ LoopInit
    /\ mode = "column"
    /\ pc = "scan"
    /\ input \in [ position : Viewers, angle : Angles, H : 0 .. MaxRows ]
    /\ acc = [ i |-> 1, distance |-> None, colour |-> "White", seen |-> << >> ]
    /\ output = None

\* one turn of the loop over the walls (lines 136-142); seen is the history of
\* the distance measured to each wall (None where the ray misses it)
ScanSegment ==
    /\ mode = "column"
    /\ pc = "scan"
    /\ acc.i <= Len(segments)
    /\ LET point == intersects(segments[acc.i], ray(input.position, input.angle))
       IN IF is_some(point)
          THEN \E new_distance \in get_distance(input.position, unwrap(point)) :
                  LET local == scan_segment([ distance |-> acc.distance,
                                              colour |-> acc.colour ],
                                            segments[acc.i], new_distance)
                  IN acc' = [ i |-> acc.i + 1,
                              distance |-> local.distance,
                              colour |-> local.colour,
                              seen |-> Append(acc.seen, Some(new_distance)) ]
          ELSE acc' = [ acc EXCEPT !.i = acc.i + 1, !.seen = Append(acc.seen, None) ]
    /\ UNCHANGED << mode, pc, input, output, loopVars >>

\* lines 144-162: the strip drawn for the column, if it has a hit
Project ==
    /\ mode = "column"
    /\ pc = "scan"
    /\ acc.i > Len(segments)
    /\ pc' = "done"
    /\ output' = IF is_some(acc.distance)
                 THEN LET height == column_height(input.H, unwrap(acc.distance))
                      IN Some([ height  |-> height,
                                padding |-> column_padding(input.H, height),
                                colour  |-> acc.colour ])
                 ELSE None
    /\ UNCHANGED << mode, input, acc, loopVars >>

ColumnNext == ScanSegment \/ Project

SpecColumn == ColumnInit /\ [][ColumnNext]_vars

(***************************************************************************)
(* column_height and column_padding on any distance.                       *)
(***************************************************************************)
MaxDistance == 20

\* distances 0, 1/4, 1/2, ... up to MaxDistance, and what f32 has beyond any bound
Distances == { Lit(k, 4) : k \in 0 .. 4 * MaxDistance } \cup { I(1000), Inf(1), NaN }

HeightInit ==
    /\ LoopInit
    /\ mode = "height"
    /\ pc = "start"
    /\ input \in [ H : 0 .. MaxRows, distance : Distances ]
    /\ acc = << >>
    /\ output = None

ProjectHit ==
    /\ mode = "height"
    /\ pc = "start"
    /\ pc' = "done"
    /\ LET height == column_height(input.H, input.distance)
       IN output' = Some([ height  |-> height,
                           padding |-> column_padding(input.H, height) ])
    /\ UNCHANGED << mode, input, acc, loopVars >>

SpecHeight == HeightInit /\ [][ProjectHit]_vars

(***************************************************************************)
(* normalize_heading on any angle.                                         *)
(***************************************************************************)
MaxEighths == 20

\* the largest f32 not above 3 * PI (3 * PI itself is not an f32)
ThreePI == Fin(1, 9882596, -20)

FourPI == Mul(I(4), PI)

\* the ends of the ranges the wrap distinguishes, and their neighbours
EdgeAngles ==
    LET ends == { PI, ThreePI, FourPI }
        near == ends \cup { Up(x) : x \in ends } \cup { Down(x) : x \in ends }
    IN near \cup { Neg(x) : x \in near }

\* the multiples of PI/4 up to MaxEighths of them either way, and values near them
InputAngles ==
    { Add(Mul(I(k), QuarterTurn), e) :
        k \in (-MaxEighths) .. MaxEighths,
        e \in { Zero(1), Lit(1, 1024), Neg(Lit(1, 1024)) } }
    \cup EdgeAngles

NormalizeInit ==
    /\ LoopInit
    /\ mode = "normalize"
    /\ pc = "start"
    /\ input \in InputAngles
    /\ acc = << >>
    /\ output = None

Normalize ==
    /\ mode = "normalize"
    /\ pc = "start"
    /\ pc' = "done"
    /\ output' = Some(normalize_heading(input))
    /\ UNCHANGED << mode, input, acc, loopVars >>

SpecNormalize == NormalizeInit /\ [][Normalize]_vars

(***************************************************************************)
(* intersects on a wall from_points(a, b), the same wall with its          *)
(* endpoints swapped, and a second segment: a wall or a ray.               *)
(***************************************************************************)
MaxCoord == 1

\* the endpoints of the walls of main
WallEnds == { Pt(6, 1), Pt(4, 3), Pt(7, 5), Pt(2, 1), Pt(-2, 1), Pt(-2, 5), Pt(2, 5) }

\* a grid tall enough for two segments on one vertical line that do not touch
GridPoints == { Pt(x, y) : x \in 0 .. MaxCoord, y \in 0 .. MaxCoord + 2 }

\* walls have distinct endpoints
GridWalls ==
    { from_points(w[1], w[2], "Green") :
        w \in { v \in GridPoints \X GridPoints : v[1] # v[2] } }

Rays == { ray(p, angle) : p \in Viewers, angle \in Angles }

MainWalls == { Walls[i] : i \in 1 .. Len(Walls) }

IntersectsInit ==
    /\ LoopInit
    /\ mode = "intersects"
    /\ pc = "start"
    /\ \E a \in WallEnds \cup GridPoints, b \in WallEnds \cup GridPoints,
          other \in MainWalls \cup GridWalls \cup Rays :
         /\ a # b
         /\ input = [ a |-> a, b |-> b, other |-> other ]
    /\ acc = << >>
    /\ output = None

Intersect ==
    /\ mode = "intersects"
    /\ pc = "start"
    /\ pc' = "done"
    /\ output' = Some([ ab |-> intersects(from_points(input.a, input.b, "Black"),
                                          input.other),
                        ba |-> intersects(from_points(input.b, input.a, "Black"),
                                          input.other) ])
    /\ UNCHANGED << mode, input, acc, loopVars >>

SpecIntersects == IntersectsInit /\ [][Intersect]_vars

(***************************************************************************)
(* Claims about the event loop (checked under Spec).                       *)
(***************************************************************************)
\* |x|
FAbs(x) == IF x.s < 0 THEN Neg(x) ELSE x

\* the interval (-pi, pi]
InRange(rot) == Lt(Neg(PI), rot) /\ Le(rot, PI)

\* C1: whatever events came before, the heading the rays of a frame are cast from
\* (the stored heading after the single wrap at the top of render) lies in (-pi, pi].
C1_FrameHeadingInRange == frame.drawn => InRange(frame.rotation)

\* C2: each time the loop goes back to read the next event, the stored heading
\* lies in (-pi, pi].
C2_HeadingInRangeAtRead == InRange(rotation)

PoseEvents == { "w", "s", "a", "d", "h", "l", "mouse" }

\* C5: when the loop reads the next event, the handler of the pose-changing event
\* before it has rendered exactly one frame, and that frame was cast from the pose
\* the event left behind (no delta is still unrendered).
C5_FrameShowsPose ==
    lastEvent \in PoseEvents =>
        /\ frames = 1
        /\ frame.drawn
        /\ frame.position = position
        /\ frame.rotation = rotation

\* the f32 a in units of 2^-22 (one unit in the last place of PI), cut to a
\* whole number of units; for |a| < 32
InUnits(a) ==
    IF a.e >= -22 THEN a.s * a.m * 2 ^ (a.e + 22)
    ELSE IF -22 - a.e > 30 THEN 0
    ELSE a.s * (a.m \div 2 ^ (-22 - a.e))

\* a is a whole number of units of 2^-22
WholeUnits(a) ==
    \/ a.e >= -22
    \/ a.m = 0
    \/ (-22 - a.e <= 24 /\ a.m % 2 ^ (-22 - a.e) = 0)

\* 2 * PI in units of 2^-22
TwoPIUnits == InUnits(TwoPI)

\* one unit in the last place of an f32 in [16, 32), in units of 2^-22: more
\* than the rounding of one addition of headings below 32
RoundingUnits == 2 ^ (MantissaBits - 21)

\* y is x, x + 2pi or x - 2pi, up to the rounding of the one addition
TurnedByWholeTurn(x, y) ==
    LET d == InUnits(y) - InUnits(x)
    IN \/ y = x
       \/ Abs(d - TwoPIUnits) <= RoundingUnits
       \/ Abs(d + TwoPIUnits) <= RoundingUnits

\* C10: a call to render returns the position it was given, leaves the wall list
\* as it was, and changes the heading by 0, +2pi or -2pi; after any sequence of
\* events the wall list is the one built at startup.
C10_RenderKeepsWorld ==
    /\ segments = Walls
    /\ call.made =>
        /\ call.outPosition = call.inPosition
        /\ TurnedByWholeTurn(call.inRotation, call.outRotation)

\* a render call that wrapped the heading, made after the viewer has moved
C10_Witness ==
    /\ call.made
    /\ Lt(PI, call.inRotation)
    /\ call.outRotation = Sub(call.inRotation, TwoPI)
    /\ position # << Zero(1), Zero(1) >>
    /\ call.outPosition = position

(***************************************************************************)
(* Claims about normalize_heading (checked under SpecNormalize).           *)
(***************************************************************************)
Normalized == mode = "normalize" /\ pc = "done"

\* y - x is exactly 0, 2pi or -2pi
Congruent(x, y) ==
    \/ y = x
    \/ /\ WholeUnits(x)
       /\ WholeUnits(y)
       /\ Abs(InUnits(y) - InUnits(x)) = TwoPIUnits

\* C7: for any input angle the result of the wrap lies in (-pi, pi] and is
\* congruent to the input modulo 2pi.
C7_AnyAngleNormalized ==
    Normalized => InRange(unwrap(output)) /\ Congruent(input, unwrap(output))

(***************************************************************************)
(* Claims about intersects (checked under SpecIntersects).                 *)
(***************************************************************************)
Intersected == mode = "intersects" /\ pc = "done"

\* the floating tolerance of the geometry: 1e-4
Tol == Lit(1, 10000)

FMin(x, y) == IF Lt(y, x) THEN y ELSE x

FMax(x, y) == IF Lt(x, y) THEN y ELSE x

Within(x, lo, hi) == Le(Sub(lo, Tol), x) /\ Le(x, Add(hi, Tol))

\* p lies on the bounded segment from seg.start to seg.end, to within Tol: inside
\* its bounding box and at most Tol away from the line through its endpoints
OnSegment(p, seg) ==
    LET dx    == Sub(seg.end[1], seg.start[1])
        dy    == Sub(seg.end[2], seg.start[2])
        cross == Sub(Mul(Sub(p[1], seg.start[1]), dy), Mul(Sub(p[2], seg.start[2]), dx))
    IN /\ Within(p[1], FMin(seg.start[1], seg.end[1]), FMax(seg.start[1], seg.end[1]))
       /\ Within(p[2], FMin(seg.start[2], seg.end[2]), FMax(seg.start[2], seg.end[2]))
       /\ Le(FAbs(cross), Mul(Tol, sqrt(Add(Mul(dy, dy), Mul(dx, dx)))))

IsVertical(seg) == Eq(seg.start[1], seg.end[1])

WallAB == from_points(input.a, input.b, "Black")

WallBA == from_points(input.b, input.a, "Black")

\* C6: every point intersects returns lies on both segments within their bounded
\* extents, to within Tol (so segments with no point in common give None).
C6_EveryHitOnBoth ==
    Intersected =>
        /\ is_some(unwrap(output).ab) =>
              /\ OnSegment(unwrap(unwrap(output).ab), WallAB)
              /\ OnSegment(unwrap(unwrap(output).ab), input.other)
        /\ is_some(unwrap(output).ba) =>
              /\ OnSegment(unwrap(unwrap(output).ba), WallBA)
              /\ OnSegment(unwrap(unwrap(output).ba), input.other)

\* Option<(f32, f32)> equality
SameHit(h1, h2) ==
    \/ is_none(h1) /\ is_none(h2)
    \/ /\ is_some(h1)
       /\ is_some(h2)
       /\ Eq(unwrap(h1)[1], unwrap(h2)[1])
       /\ Eq(unwrap(h1)[2], unwrap(h2)[2])

\* C8: from_points(a, b) and from_points(b, a) give the same answer against any
\* other segment: both None, or both Some of the same point.
C8_EndpointOrderIrrelevant ==
    Intersected => SameHit(unwrap(output).ab, unwrap(output).ba)

(***************************************************************************)
(* Claims about one column of render (checked under SpecColumn).           *)
(***************************************************************************)
ColumnDone == mode = "column" /\ pc = "done"

TheRay == ray(input.position, input.angle)

\* the walls the column's ray intersects
Hits == { i \in 1 .. Len(segments) : is_some(intersects(segments[i], TheRay)) }

\* the distance the loop measured from the viewer to the ray's hit on wall i
HitDistance(i) == unwrap(acc.seen[i])

\* the loop measured every wall: a distance get_distance can return to each wall
\* the ray hits, nothing for the others
Measured ==
    /\ Len(acc.seen) = Len(segments)
    /\ \A i \in 1 .. Len(segments) :
          IF i \in Hits
          THEN /\ is_some(acc.seen[i])
               /\ HitDistance(i) \in get_distance(input.position,
                                                  unwrap(intersects(segments[i], TheRay)))
          ELSE is_none(acc.seen[i])

\* C4: after the loop over the walls, the retained distance is the least of the
\* hit distances and the retained colour that of the first wall, in list order,
\* at that distance; with no hit the column stays empty and nothing is drawn.
C4_NearestHitFirstOnTie ==
    ColumnDone =>
        /\ Measured
        /\ IF Hits = {}
           THEN is_none(acc.distance) /\ is_none(output)
           ELSE /\ is_some(acc.distance)
                /\ \A i \in Hits : Le(unwrap(acc.distance), HitDistance(i))
                /\ \E i \in Hits :
                     /\ Eq(HitDistance(i), unwrap(acc.distance))
                     /\ \A j \in Hits : Eq(HitDistance(j), unwrap(acc.distance)) => i <= j
                     /\ acc.colour = segments[i].colour
                     /\ is_some(output)
                     /\ unwrap(output).colour = segments[i].colour

\* a column whose nearest hit is a corner shared by two walls of different
\* colours, with a farther wall behind it
C4_Witness ==
    /\ ColumnDone
    /\ \E i \in Hits, j \in Hits :
         /\ i < j
         /\ intersects(segments[i], TheRay) = intersects(segments[j], TheRay)
         /\ Eq(HitDistance(i), HitDistance(j))
         /\ Eq(HitDistance(i), unwrap(acc.distance))
         /\ segments[i].colour # segments[j].colour
         /\ acc.colour = segments[i].colour
    /\ \E n \in Hits : Lt(unwrap(acc.distance), HitDistance(n))

\* round(H * (1 - (d - 5.0) * 0.1)) in f32
HeightFormula(H, d) == Round(Mul(I(H), Sub(I(1), Mul(Sub(d, I(5)), Lit(1, 10)))))

\* h is within half a row (and 1e-4) of the real number H * (1 - (d - 5) / 10),
\* for a finite d = m * 2^e >= 4: in integers, scaled by 10 * 2^-e
NearestRow(h, H, d) ==
    LET unit == 2 ^ (-d.e)
    IN Abs(h * 10 * unit - H * (15 * unit - d.m)) <= 5 * unit + unit \div 1000

\* C3: a column whose nearest hit is at distance d has height H when d <= 5.0
\* and round(H * (1 - (d - 5.0) * 0.1)) when d > 5.0; d = 4 and d = 5 give H,
\* d = 10 gives round(H * 0.5), d = 15 gives 0.
C3_HeightFromDistance ==
    (ColumnDone /\ is_some(acc.distance)) =>
        LET d == unwrap(acc.distance)
            h == unwrap(output).height
        IN /\ Le(d, I(5)) => h = input.H
           /\ Lt(I(5), d) => Eq(I(h), HeightFormula(input.H, d)) /\ NearestRow(h, input.H, d)
           /\ d \in { I(4), I(5) } => h = input.H
           /\ d = I(10) => h = (input.H + 1) \div 2
           /\ d = I(15) => h = 0

\* a hit 10 units away in a viewport of 5 rows: 3 rows
C3_Witness ==
    /\ ColumnDone
    /\ acc.distance = Some(I(10))
    /\ input.H = 5
    /\ unwrap(output).height = 3

(***************************************************************************)
(* Claims about the height and padding of a column (checked under          *)
(* SpecHeight, on any distance).                                           *)
(***************************************************************************)
HeightDone == mode = "height" /\ pc = "done"

\* C9: whatever the hit distance, 0 <= height <= H, so H - height does not
\* underflow, and the strip of rows [padding, padding + height) with
\* padding = (H - height) / 2 lies inside rows 0 .. H.
C9_StripInsideViewport ==
    HeightDone =>
        LET h   == unwrap(output).height
            pad == unwrap(output).padding
        IN /\ 0 <= h
           /\ h <= input.H
           /\ pad = (input.H - h) \div 2
           /\ 0 <= pad
           /\ pad + h <= input.H

\* a hit beyond the ray's reach, where the formula is negative: nothing drawn
C9_Witness ==
    /\ HeightDone
    /\ Lt(I(15), input.distance)
    /\ Lt(HeightFormula(input.H, input.distance), I(0))
    /\ unwrap(output).height = 0
    /\ unwrap(output).padding = input.H \div 2
    /\ input.H > 1

====
